---- MODULE Spec2Model ----
(***************************************************************************)
(* State-machine model of the hashtree desktop runtime (mmalmi/hashtree):  *)
(*   - the tiered blob store and the root cache of the /htree gateway      *)
(*     (apps/iris-files/src-tauri/src/htree.rs, worker/store.rs),          *)
(*   - the /relay WebSocket proxy (relay_proxy.rs),                        *)
(*   - NIP-07 session tokens (nip07.rs) and the permission store           *)
(*     (permissions.rs),                                                   *)
(*   - the worker's Nostr subscription manager (worker/nostr.rs, mod.rs).  *)
(* Each component has its own next-state relation and specification; the   *)
(* variables of the other components stay at their initial values.         *)
(***************************************************************************)
EXTENDS Bags, FiniteSets, Integers, Sequences, TLC

VARIABLES
    \* ---- tiered store + root cache (htree.rs) ----
    local,          \* FsBlobStore contents: hash -> block or Missing
    root_cache,     \* HtreeState.root_cache: "npub/tree" -> CachedRoot.cid or NoEntry
    served,         \* outcome of the latest resolve_tree, until the state changes (observer)
    lastGet,        \* outcome of the last Store.get (observer)
    \* ---- /relay proxy (relay_proxy.rs) ----
    connState,      \* per connection: "idle" | "open" | "closed"
    conn_subs,      \* per connection: client sub id -> backend SubscriptionId or NoSdk
    backend,        \* backend subscriptions alive in the shared nostr-sdk client
    nextSdk,        \* next fresh backend SubscriptionId
    created,        \* per connection: backend ids created by its REQs (observer)
    wsOut,          \* per connection: messages queued by the last handler step
    \* ---- NIP-07 session tokens (nip07.rs) ----
    session_tokens, \* Nip07State.session_tokens: origin -> token or NoToken
    nextToken,      \* next fresh UUID
    mintedFor,      \* token -> origin it was minted for (observer)
    retired,        \* tokens superseded or cleared (observer)
    lastValidate,   \* last validate_token call and its result (observer)
    \* ---- permission store (permissions.rs) ----
    cache,          \* PermissionStore.cache: origin -> NoPerms or (cap -> decision)
    decided,        \* (origin, cap) decided since the last revoke_all (observer)
    \* ---- worker Nostr manager (worker/nostr.rs, worker/mod.rs) ----
    client,         \* NostrManager.client is Some
    connected,      \* relays currently connected
    subscriptions,  \* NostrManager.subscriptions: sub_id -> ActiveSubscription or NoSub
    relaySubs,      \* sub_id -> relays that hold its REQ
    eoseDue,        \* sub_id -> relays that still owe an EOSE for it
    subTask,        \* sub_id -> position of the Subscribe handler in flight
    unsubTask,      \* sub_id -> position of the Unsubscribe handler in flight
    retryTask,      \* sub_id -> position of the retry task on this entry
    obs,            \* sub_id -> what the subscriber has observed (observer)
    \* ---- /relay proxy: forwarding channel of one connection (relay_proxy.rs) ----
    chanLen,        \* messages queued in the mpsc channel
    fwd,            \* forwarder task: "recv" | "send" | "stopped"
    rxOpen,         \* the channel's receiver (forward_to_ws task) is alive
    chanConn,       \* the connection: "open" | "closed"
    waited,         \* the forwarder has waited on a full channel (observer)
    rangeReq,         \* the last /htree/{nhash} request: the file named and the Range header
    rangeResp,        \* the response to it
    gwCache,          \* gateway: root cache of one npub (tree name and fallback name)
    gwLocal,          \* gateway: the local blob store
    gwReq,            \* the last npub request
    gwResp,           \* handle_htree_request's response to it
    gwProto,          \* handle_htree_protocol's response to the same request and state
    gwAgain,          \* handle_htree_request's response to the repeated request
    wStore,           \* tree walk: blocks in the worker's local store
    wBlossom,         \* blocks uploaded to the Blossom write servers
    lastPush,         \* the last PushToBlossom: walked list and result
    tStore,           \* tree edits: blocks of the local store, least recently accessed first
    tRoot,            \* the root the last edit returned
    busy,             \* gateway start-up: loopback ports held by other processes
    srv,              \* the gateway's listener: bound port (0 none, -1 bind failed), entry point
    urlGiven,         \* port in the URL get_htree_server_url returned (0: not asked)
    wvSessions,       \* Nip07State.session_tokens as the child webviews use it
    wvOpen,           \* label -> origin and token of the open child webview
    wvNextToken,      \* the next UUID
    wvLast,           \* the last /nip07 request of a webview and its validation
    hDb,              \* the history database: path -> entry
    entry_count,      \* HistoryStore.entry_count
    hLast,            \* the last record_visit: the path's entry before and after
    sLast,            \* the last history search: database, query, limit and results
    ndbCache,         \* the events stored in nostrdb
    replay,           \* the last cache replay: sub_id, filters and the events emitted
    wsStore,          \* the hashes whose blocks the server's store holds
    wsConn,           \* client -> "open" (in WsRelayState.clients) or "closed"
    pending,          \* WsRelayState.pending: (peer_id, request_id) -> PendingRequest
    asked,            \* client -> the request it has sent
    timer,            \* client -> the timeout task of its request
    inbox,            \* peer -> the reqs forwarded to it and not yet answered
    binq,             \* peer -> the reqs it answered with found, block not yet sent
    recv,             \* client -> the bag of messages sent to it
    ensPc,            \* caller -> where its ensure_client call stands
    ensClient,        \* caller -> the client its call created (0: none)
    storedClient,     \* NostrManager.client (0: None)
    clientsCreated,   \* the number of clients created
    listeners,        \* the clients whose listener task runs
    retryLoops,       \* the clients whose retry task runs
    shutdown_tx,      \* the client whose listener holds the receiver of shutdown_tx
    signCache,        \* PermissionStore.cache as the NIP-07 handler reads it
    signResp,         \* the last signEvent response
    rsCache,        \* root_cache as resolve_tree and cache_tree_root share it
    rsTask,         \* per resolve_tree call: where it is, its cache key, the entry it read
    rsWriter,       \* per cache key: who put the current entry
    \* ---- WebRTCManager (worker/webrtc.rs) ----
    transport,      \* WebRTCManager.transport: 0 (None) or the init call that built it
    signaling,      \* WebRTCManager.signaling, likewise
    classifier_tx,  \* WebRTCManager.classifier_tx, likewise
    running,        \* WebRTCManager.running
    initPc,         \* per caller of init: where the call is and what it is building
    tasks,          \* spawned tasks that have not ended: kind and the init call that spawned it
    managersBuilt,  \* init calls that went past the already-initialised check
    \* ---- BlossomManager (worker/blossom.rs) ----
    blossomClient,   \* BlossomManager.client: NoBlossom or the client's servers and keys
    blossomKeys,     \* BlossomManager.keys: 0 (None) or the keys
    pending_servers, \* BlossomManager.pending_servers: 0 (None) or the queued lists
    setKeys,         \* the set_keys call under way, if any
    setServers,      \* the set_servers call under way, if any
    requested,       \* the lists given to the latest set_servers (observer)
    \* ---- lock guards and await points ----
    lockAt           \* per handler: how many of its operations it has executed

storeVars == <<local, root_cache, served, lastGet>>
relayVars == <<connState, conn_subs, backend, nextSdk, created, wsOut>>
tokenVars == <<session_tokens, nextToken, mintedFor, retired, lastValidate>>
permVars == <<cache, decided>>
nostrVars == <<client, connected, subscriptions, relaySubs, eoseDue, subTask, unsubTask,
               retryTask, obs>>
chanVars == <<chanLen, fwd, rxOpen, chanConn, waited>>
rangeVars == <<rangeReq, rangeResp>>
gwVars == <<gwCache, gwLocal, gwReq, gwResp, gwProto, gwAgain>>
walkVars == <<wStore, wBlossom, lastPush>>
treeVars == <<tStore, tRoot>>
serverVars == <<busy, srv, urlGiven>>
webviewVars == <<wvSessions, wvOpen, wvNextToken, wvLast>>
histVars == <<hDb, entry_count, hLast>>
searchVars == <<sLast>>
ndbVars == <<ndbCache, replay>>
wsVars == <<wsStore, wsConn, pending, asked, timer, inbox, binq, recv>>
ensVars == <<ensPc, ensClient, storedClient, clientsCreated, listeners, retryLoops, shutdown_tx>>
signVars == <<signCache, signResp>>
resolveVars == <<rsCache, rsTask, rsWriter>>
webrtcVars == <<transport, signaling, classifier_tx, running, initPc, tasks, managersBuilt>>
blossomVars == <<blossomClient, blossomKeys, pending_servers, setKeys, setServers, requested>>
lockVars == <<lockAt>>
vars == <<storeVars, relayVars, tokenVars, permVars, nostrVars, chanVars, rangeVars, gwVars, walkVars, treeVars, serverVars, webviewVars, histVars, searchVars, ndbVars, wsVars, ensVars, signVars, resolveVars, webrtcVars, blossomVars, lockVars>>

(***************************************************************************)
(* Blocks, hashes and CIDs                                                 *)
(***************************************************************************)
\* Three blocks: a plaintext tree node, the ciphertext of an encrypted tree
\* node, and a raw plaintext leaf.
Blocks == {"node", "cipher", "leaf"}
Missing == "missing"

\* sha256: one hash per block (collision resistance).
Sha(b) == CASE b = "node" -> "h_node" [] b = "cipher" -> "h_cipher" [] OTHER -> "h_leaf"
Hashes == {Sha(b) : b \in Blocks}

\* hashtree_core::is_tree_node: only a plaintext tree node carries the magic prefix.
is_tree_node(data) == data = "node"

None == "none"
EncKeys == {"key1"}
Cids == [hash : Hashes, key : EncKeys \cup {None}]
NoEntry == [hash |-> None, key |-> None]

\* Bound: number of npub/treeName cache keys.
NumTrees == 1
Trees == 1..NumTrees

(***************************************************************************)
(* Tiered store: FsBlobStore (local) first, Blossom (remote) as fallback   *)
(***************************************************************************)
\* FsBlobStore::get through BlobStore::get.
LocalGet(store, h) == store[h]

\* FsBlobStore::put through BlobStore::put: the bytes are stored under the
\* hash the caller names (test_put_and_get stores b"Hello, World!" under
\* "aaaa...": nothing compares sha256(data) with the hash); a hash that is
\* already present keeps its bytes (put answers false).
LocalPut(store, h, data) ==
    IF store[h] = Missing THEN [store EXCEPT ![h] = data] ELSE store

\* FsBlobStore::delete through BlobStore::delete.
LocalDelete(store, h) == [store EXCEPT ![h] = Missing]

\* BlossomStore::get: a read server that has the hash returns the block
\* whose hash it is; "miss" is a 404 everywhere, "err" any other failure.
RemoteOutcomes == {"hit", "miss", "err"}
BlossomGet(h, outcome) ==
    IF outcome = "hit" THEN CHOOSE b \in Blocks : Sha(b) = h ELSE Missing

\* CombinedStore::get: local first; on a local miss Blossom, and a Blossom
\* hit is written through to the local store (a failed write is only logged).
CombinedGet(store, h, outcome, cacheOk) ==
    IF LocalGet(store, h) # Missing
    THEN [data |-> LocalGet(store, h), store |-> store, err |-> FALSE]
    ELSE IF outcome = "hit"
    THEN [data |-> BlossomGet(h, outcome),
          store |-> IF cacheOk THEN LocalPut(store, h, BlossomGet(h, outcome)) ELSE store,
          err |-> FALSE]
    ELSE [data |-> Missing, store |-> store, err |-> outcome = "err"]

NoGet == [hash |-> None, data |-> Missing, remote |-> "unused", err |-> FALSE]
Idle == [source |-> "idle", cid |-> NoEntry, cachedBlock |-> Missing]

InitStore ==
    /\ local = [h \in Hashes |-> Missing]
    /\ root_cache = [t \in Trees |-> NoEntry]
    /\ served = Idle
    /\ lastGet = NoGet

\* Store::put (CombinedStore::put writes only to the local store).
StorePut(h, data) ==
    /\ local' = LocalPut(local, h, data)
    /\ served' = Idle
    /\ UNCHANGED <<root_cache, lastGet>>

\* Store::delete (local only).
StoreDelete(h) ==
    /\ local' = LocalDelete(local, h)
    /\ served' = Idle
    /\ UNCHANGED <<root_cache, lastGet>>

\* Store::get through the tiered store.
StoreGet(h, outcome, cacheOk) ==
    LET g == CombinedGet(local, h, outcome, cacheOk) IN
    /\ local' = g.store
    /\ lastGet' = [hash |-> h, data |-> g.data,
                   remote |-> IF LocalGet(local, h) = Missing THEN outcome ELSE "unused",
                   err |-> g.err]
    /\ served' = Idle
    /\ UNCHANGED root_cache

(***************************************************************************)
(* Root cache and resolve_tree                                             *)
(***************************************************************************)
\* Faulty variant of cache_root: the root is stored under every cache key.
cache_root_every_key(rc, t, cid) == [k \in DOMAIN rc |-> cid]

\* HtreeState::cache_root, called by the cache_tree_root command: the
\* frontend names any hash, with or without a key.  (visibility and
\* timestamp are stored but never read by resolve_tree.)
cache_root(rc, t, cid) == [rc EXCEPT ![t] = cid]

CacheTreeRoot(t, cid) ==
    /\ root_cache' = cache_root(root_cache, t, cid)
    /\ served' = Idle
    /\ UNCHANGED <<local, lastGet>>

\* Faulty variant of CacheHit: every cached entry is served.
CacheHitAnyEntry(entry, data) == TRUE

\* resolve_tree's test on a cached entry: it is served when it carries its
\* key, or when its root block is retrievable and is a tree node.
CacheHit(entry, data) ==
    entry.key # None \/ (data # Missing /\ is_tree_node(data))

\* What resolver.resolve can answer within the 10 s deadline, or not.
ResolveKinds == {"timeout", "error", "notfound", "found"}

\* One run of resolve_tree for cache key t.  kind (and res, when found) is
\* the resolver's answer, outcome/cacheOk those of the store.get made for a
\* key-less cached entry.
ResolveTree(t, kind, res, outcome, cacheOk) ==
    LET entry  == root_cache[t]
        probe  == entry # NoEntry /\ entry.key = None
        g      == CombinedGet(local, entry.hash, outcome, cacheOk)
        data   == IF probe THEN g.data
                  ELSE IF entry # NoEntry THEN LocalGet(local, entry.hash) ELSE Missing
        hit    == entry # NoEntry /\ CacheHit(entry, IF probe THEN g.data ELSE Missing)
    IN
    /\ local' = IF probe THEN g.store ELSE local
    /\ IF hit
       THEN /\ served' = [source |-> "cache", cid |-> entry, cachedBlock |-> data]
            /\ UNCHANGED root_cache
       ELSE IF kind = "found"
       THEN /\ root_cache' = cache_root(root_cache, t, res)
            /\ served' = [source |-> "relay", cid |-> res, cachedBlock |-> data]
       ELSE /\ served' = [source |-> IF kind = "notfound" THEN "TreeNotFound" ELSE "Resolver",
                          cid |-> NoEntry, cachedBlock |-> data]
            /\ UNCHANGED root_cache
    /\ UNCHANGED lastGet

\* The write-through of a Blossom hit succeeds or fails; there is none otherwise.
WriteThrough(outcome) == IF outcome = "hit" THEN BOOLEAN ELSE {FALSE}
\* The Cid a resolver answer carries.
Resolved(kind) == IF kind = "found" THEN Cids ELSE {NoEntry}

NextStore ==
    \/ \E h \in Hashes, data \in Blocks : StorePut(h, data)
    \/ \E h \in Hashes : StoreDelete(h)
    \/ \E h \in Hashes, outcome \in RemoteOutcomes :
          \E cacheOk \in WriteThrough(outcome) : StoreGet(h, outcome, cacheOk)

NextRoot ==
    \/ \E h \in Hashes, data \in Blocks : StorePut(h, data)
    \/ \E h \in Hashes : StoreDelete(h)
    \/ \E t \in Trees, cid \in Cids : CacheTreeRoot(t, cid)
    \/ \E t \in Trees, kind \in ResolveKinds, outcome \in RemoteOutcomes :
          \E res \in Resolved(kind), cacheOk \in WriteThrough(outcome) :
              ResolveTree(t, kind, res, outcome, cacheOk)

(***************************************************************************)
(* /relay WebSocket proxy (relay_proxy.rs)                                 *)
(***************************************************************************)
\* Bounds: connections, and backend subscription ids the client hands out.
NumConns == 2
MaxSdk == 3
Conns == 1..NumConns
SdkIds == 1..MaxSdk
NoSdk == 0
ClientSubIds == {"a", "b"}

\* A message queued for the WebSocket.  For EVENT and EOSE, from is the
\* backend subscription that delivered it and mapped the backend
\* subscription the connection's map held for sub when it was queued.
Msg(type, sub, from, mapped) == [type |-> type, sub |-> sub, from |-> from, mapped |-> mapped]
Notice == Msg("NOTICE", None, NoSdk, NoSdk)
OkMsg == Msg("OK", None, NoSdk, NoSdk)

InitRelay ==
    /\ connState = [c \in Conns |-> "idle"]
    /\ conn_subs = [c \in Conns |-> [s \in ClientSubIds |-> NoSdk]]
    /\ backend = {}
    /\ nextSdk = 1
    /\ created = [c \in Conns |-> {}]
    /\ wsOut = [c \in Conns |-> {}]

\* handle_connection up to its receive loop: a fresh, empty subscription map.
Connect(c) ==
    /\ connState[c] = "idle"
    /\ connState' = [connState EXCEPT ![c] = "open"]
    /\ UNCHANGED <<conn_subs, backend, nextSdk, created, wsOut>>

\* handle_message "REQ": subscriptions.insert(sub_id, output.val).
InsertSub(subs, s, id) == [subs EXCEPT ![s] = id]

\* handle_message "REQ".  ok = FALSE: no filter given, or client.subscribe
\* failed; the error is answered with a NOTICE and nothing is stored.
Req(c, s, ok) ==
    /\ connState[c] = "open"
    /\ nextSdk <= MaxSdk
    /\ IF ok
       THEN /\ backend' = backend \cup {nextSdk}
            /\ conn_subs' = [conn_subs EXCEPT ![c] = InsertSub(conn_subs[c], s, nextSdk)]
            /\ created' = [created EXCEPT ![c] = @ \cup {nextSdk}]
            /\ nextSdk' = nextSdk + 1
            /\ wsOut' = [wsOut EXCEPT ![c] = {}]
       ELSE /\ wsOut' = [wsOut EXCEPT ![c] = {Notice}]
            /\ UNCHANGED <<backend, conn_subs, created, nextSdk>>
    /\ UNCHANGED connState

\* handle_message "CLOSE": remove the mapping and unsubscribe what it held.
Close(c, s) ==
    /\ connState[c] = "open"
    /\ conn_subs' = [conn_subs EXCEPT ![c][s] = NoSdk]
    /\ backend' = backend \ {conn_subs[c][s]}
    /\ wsOut' = [wsOut EXCEPT ![c] = {}]
    /\ UNCHANGED <<connState, nextSdk, created>>

\* handle_message "EVENT": publish, answer OK (true or false).
PublishEvent(c) ==
    /\ connState[c] = "open"
    /\ wsOut' = [wsOut EXCEPT ![c] = {OkMsg}]
    /\ UNCHANGED <<connState, conn_subs, backend, nextSdk, created>>

\* The messages the forwarder queues for an Event notification that backend
\* subscription b delivered: one EVENT per entry of the connection's map.
ForwardedEvents(subs, b) ==
    {Msg("EVENT", s, b, subs[s]) : s \in {x \in ClientSubIds : subs[x] # NoSdk}}

\* The message the forwarder queues for EndOfStoredEvents(b): an EOSE under
\* the client id whose stored backend id equals b, if there is one.
ForwardedEose(subs, b) ==
    {Msg("EOSE", s, b, subs[s]) : s \in {x \in ClientSubIds : subs[x] = b}}

\* Forwarder task of connection c, RelayPoolNotification::Event.  The
\* notification stream is the shared client's: b is any live backend
\* subscription, of this connection or of another.
ForwardEvent(c, b) ==
    /\ connState[c] = "open"
    /\ b \in backend
    /\ wsOut' = [wsOut EXCEPT ![c] = ForwardedEvents(conn_subs[c], b)]
    /\ UNCHANGED <<connState, conn_subs, backend, nextSdk, created>>

\* Forwarder task of connection c, RelayMessage::EndOfStoredEvents.
ForwardEose(c, b) ==
    /\ connState[c] = "open"
    /\ b \in backend
    /\ wsOut' = [wsOut EXCEPT ![c] = ForwardedEose(conn_subs[c], b)]
    /\ UNCHANGED <<connState, conn_subs, backend, nextSdk, created>>

\* handle_connection after its receive loop: unsubscribe every backend id
\* that is in the map, abort the forwarder tasks.
Disconnect(c) ==
    /\ connState[c] = "open"
    /\ connState' = [connState EXCEPT ![c] = "closed"]
    /\ backend' = backend \ {conn_subs[c][s] : s \in ClientSubIds}
    /\ conn_subs' = [conn_subs EXCEPT ![c] = [s \in ClientSubIds |-> NoSdk]]
    /\ wsOut' = [wsOut EXCEPT ![c] = {}]
    /\ UNCHANGED <<nextSdk, created>>

NextRelay ==
    \/ \E c \in Conns : Connect(c)
    \/ \E c \in Conns, s \in ClientSubIds, ok \in BOOLEAN : Req(c, s, ok)
    \/ \E c \in Conns, s \in ClientSubIds : Close(c, s)
    \/ \E c \in Conns : PublishEvent(c)
    \/ \E c \in Conns, b \in SdkIds : ForwardEvent(c, b)
    \/ \E c \in Conns, b \in SdkIds : ForwardEose(c, b)
    \/ \E c \in Conns : Disconnect(c)

(***************************************************************************)
(* NIP-07 session tokens (nip07.rs)                                        *)
(***************************************************************************)
\* Bounds: origins, and session tokens minted in a run.
NumOrigins == 2
MaxTokens == 3
Origins == 1..NumOrigins
Tokens == 1..MaxTokens
NoToken == 0
\* A string that is no minted UUID ("wrong-token" of test_session_token_validation).
WrongToken == -1
NoValidate == [origin |-> 0, token |-> NoToken, ok |-> FALSE]

InitToken ==
    /\ session_tokens = [o \in Origins |-> NoToken]
    /\ nextToken = 1
    /\ mintedFor = [t \in Tokens |-> 0]
    /\ retired = {}
    /\ lastValidate = NoValidate

\* Nip07State::new_session: a fresh UUID replaces the origin's token.
NewSession(o) ==
    /\ nextToken <= MaxTokens
    /\ session_tokens' = [session_tokens EXCEPT ![o] = nextToken]
    /\ mintedFor' = [mintedFor EXCEPT ![nextToken] = o]
    /\ retired' = retired \cup ({session_tokens[o]} \ {NoToken})
    /\ nextToken' = nextToken + 1
    /\ lastValidate' = NoValidate

\* Nip07State::clear_session.
ClearSession(o) ==
    /\ session_tokens' = [session_tokens EXCEPT ![o] = NoToken]
    /\ retired' = retired \cup ({session_tokens[o]} \ {NoToken})
    /\ lastValidate' = NoValidate
    /\ UNCHANGED <<nextToken, mintedFor>>

\* Faulty variant of validate_token: the check of validate_any_token.
validate_any_token(st, o, t) == \E o2 \in Origins : st[o2] # NoToken /\ st[o2] = t

\* Nip07State::validate_token: session_tokens.get(origin) == Some(token).
validate_token(st, o, t) == st[o] # NoToken /\ st[o] = t

\* handle_nip07_request / handle_webview_event: the X-Session-Token header
\* is checked against the origin the request names.
ValidateToken(o, t) ==
    /\ lastValidate' = [origin |-> o, token |-> t, ok |-> validate_token(session_tokens, o, t)]
    /\ UNCHANGED <<session_tokens, nextToken, mintedFor, retired>>

NextToken ==
    \/ \E o \in Origins : NewSession(o)
    \/ \E o \in Origins : ClearSession(o)
    \/ \E o \in Origins, t \in Tokens \cup {WrongToken} : ValidateToken(o, t)

(***************************************************************************)
(* Permission store (permissions.rs)                                       *)
(***************************************************************************)
Caps == {"GetPublicKey", "SignEvent", "ReadEvents"}
Unset == "unset"
\* An origin's entry: absent from the map, or a map cap -> decision.
EmptyPerms == [present |-> TRUE, perms |-> [cap \in Caps |-> Unset]]
NoPerms == [present |-> FALSE, perms |-> [cap \in Caps |-> Unset]]

InitPerm ==
    /\ cache = [o \in Origins |-> NoPerms]
    /\ decided = {}

\* PermissionStore::is_granted: Some(true) for GetPublicKey, else the
\* stored decision of (origin, cap): "granted" for Some(true), "denied" for
\* Some(false), Unset for None.
is_granted(c, o, cap) ==
    IF cap = "GetPublicKey" THEN "granted"
    ELSE IF ~c[o].present THEN Unset
    ELSE c[o].perms[cap]

\* PermissionStore::needs_prompt.
needs_prompt(c, o, cap) ==
    IF cap = "GetPublicKey" THEN FALSE ELSE is_granted(c, o, cap) = Unset

\* cache.entry(origin).or_default().insert(cap, granted), of grant and deny.
InsertDecision(c, o, cap, granted) ==
    [c EXCEPT ![o] = [(IF c[o].present THEN c[o] ELSE EmptyPerms) EXCEPT !.perms[cap] = granted]]

\* Faulty variant of revoke_all: the origin's decisions are kept.
revoke_all_keeps(c, o) == c

\* PermissionStore::revoke_all: cache.remove(origin).
revoke_all(c, o) == [c EXCEPT ![o] = NoPerms]

\* PermissionStore::grant.
Grant(o, cap) ==
    /\ cache' = InsertDecision(cache, o, cap, "granted")
    /\ decided' = decided \cup {<<o, cap>>}

\* PermissionStore::deny.
Deny(o, cap) ==
    /\ cache' = InsertDecision(cache, o, cap, "denied")
    /\ decided' = decided \cup {<<o, cap>>}

\* The revoke-all command of an origin.
RevokeAll(o) ==
    /\ cache' = revoke_all(cache, o)
    /\ decided' = {d \in decided : d[1] # o}

NextPerm ==
    \/ \E o \in Origins, cap \in Caps : Grant(o, cap)
    \/ \E o \in Origins, cap \in Caps : Deny(o, cap)
    \/ \E o \in Origins : RevokeAll(o)

(***************************************************************************)
(* Worker Nostr manager (worker/nostr.rs) and the Subscribe / Unsubscribe  *)
(* handlers of worker_message (worker/mod.rs)                              *)
(***************************************************************************)
\* Bounds: relays of the pool, and cached events that match a
\* subscription's filters.
NumRelays == 2
MaxCached == 1
Relays == 1..NumRelays
\* sub_id of the worker request; the backend id is SubscriptionId::new(sub_id).
SubIds == {"sub"}

NoSub == [present |-> FALSE, sent_to |-> {}, via |-> None]
ActiveSubscription(sent, via) == [present |-> TRUE, sent_to |-> sent, via |-> via]
NoTask == [pc |-> "idle", left |-> 0, accepted |-> {}]
\* What the subscriber has seen under a sub_id since it last asked for it:
\*   eose       EOSE messages: 0, 1, or 2 for two and more
\*   live       a live event was delivered while the cached replay of the
\*              request was still to come or under way
\*   cachedAfterLive  a cached replay event was delivered after a live one
\*   closed     an Unsubscribe request was answered, no Subscribe asked since
\*   afterClose an EVENT or EOSE was delivered while closed
NoObs == [eose |-> 0, live |-> FALSE, cachedAfterLive |-> FALSE,
          closed |-> FALSE, afterClose |-> FALSE]

InitNostr ==
    /\ client = FALSE
    /\ connected = {}
    /\ subscriptions = [s \in SubIds |-> NoSub]
    /\ relaySubs = [s \in SubIds |-> {}]
    /\ eoseDue = [s \in SubIds |-> {}]
    /\ subTask = [s \in SubIds |-> NoTask]
    /\ unsubTask = [s \in SubIds |-> "idle"]
    /\ retryTask = [s \in SubIds |-> NoTask]
    /\ obs = [s \in SubIds |-> NoObs]

\* A relay of the pool connects (client.connect runs detached).
RelayConnect(r) ==
    /\ client
    /\ r \notin connected
    /\ connected' = connected \cup {r}
    /\ UNCHANGED <<retryTask, client, subscriptions, relaySubs, eoseDue, subTask, unsubTask, obs>>

\* A relay drops: it forgets the REQs it held.
RelayDisconnect(r) ==
    /\ r \in connected
    /\ connected' = connected \ {r}
    /\ relaySubs' = [s \in SubIds |-> relaySubs[s] \ {r}]
    /\ eoseDue' = [s \in SubIds |-> eoseDue[s] \ {r}]
    /\ UNCHANGED <<retryTask, client, subscriptions, subTask, unsubTask, obs>>

\* worker_message Subscribe, first part: ensure_client, then query_ndb_cache
\* starts with n cached events matching the filters.
StartSubscribe(s, n) ==
    /\ subTask[s].pc = "idle"
    /\ client' = TRUE
    /\ subTask' = [subTask EXCEPT ![s] = [pc |-> "replay", left |-> n, accepted |-> {}]]
    /\ obs' = [obs EXCEPT ![s] = NoObs]
    /\ UNCHANGED <<retryTask, connected, subscriptions, relaySubs, eoseDue, unsubTask>>

\* query_ndb_cache emits one cached event as WorkerResponse::Event{sub_id}.
ReplayEmit(s) ==
    /\ subTask[s].pc = "replay"
    /\ subTask[s].left > 0
    /\ subTask' = [subTask EXCEPT ![s].left = @ - 1]
    /\ obs' = [obs EXCEPT ![s].cachedAfterLive = @ \/ obs[s].live]
    /\ UNCHANGED <<retryTask, client, connected, subscriptions, relaySubs, eoseDue, unsubTask>>

\* NostrManager::subscribe up to the end of client.subscribe_with_id: the
\* REQ goes to the connected relays, output.success names them.
IssueSubscribe(s) ==
    /\ subTask[s].pc = "replay"
    /\ subTask[s].left = 0
    /\ subTask' = [subTask EXCEPT ![s] = [pc |-> "insert", left |-> 0, accepted |-> connected]]
    /\ relaySubs' = [relaySubs EXCEPT ![s] = @ \cup connected]
    /\ eoseDue' = [eoseDue EXCEPT ![s] = @ \cup connected]
    /\ UNCHANGED <<retryTask, client, connected, subscriptions, unsubTask, obs>>

\* NostrManager::subscribe, last statement: subscriptions.insert(sub_id,
\* active_sub); the handler answers Void.
InsertSubscribe(s) ==
    /\ subTask[s].pc = "insert"
    /\ subscriptions' = [subscriptions EXCEPT
                            ![s] = ActiveSubscription(subTask[s].accepted, "subscribe")]
    /\ subTask' = [subTask EXCEPT ![s] = NoTask]
    /\ UNCHANGED <<retryTask, client, connected, relaySubs, eoseDue, unsubTask, obs>>

\* NostrManager::unsubscribe, first part: subscriptions.remove(sub_id).
\* With no entry there is nothing to close and the request is answered.
UnsubRemove(s) ==
    /\ unsubTask[s] = "idle"
    /\ subscriptions' = [subscriptions EXCEPT ![s] = NoSub]
    /\ IF subscriptions[s].present
       THEN /\ unsubTask' = [unsubTask EXCEPT ![s] = "closing"]
            /\ UNCHANGED obs
       ELSE /\ obs' = [obs EXCEPT ![s].closed = TRUE]
            /\ UNCHANGED unsubTask
    /\ UNCHANGED <<retryTask, client, connected, relaySubs, eoseDue, subTask>>

\* NostrManager::unsubscribe, second part: client.unsubscribe(sdk_id); the
\* request is answered.
UnsubClose(s) ==
    /\ unsubTask[s] = "closing"
    /\ unsubTask' = [unsubTask EXCEPT ![s] = "idle"]
    /\ relaySubs' = [relaySubs EXCEPT ![s] = {}]
    /\ eoseDue' = [eoseDue EXCEPT ![s] = {}]
    /\ obs' = [obs EXCEPT ![s].closed = TRUE]
    /\ UNCHANGED <<retryTask, client, connected, subscriptions, subTask>>

\* The listener's lookup of the worker sub_id for a notification of backend
\* subscription s: the direct id, when the registry holds it.
ListenerFinds(subs, s) == subs[s].present

\* Listener task, RelayPoolNotification::Event from relay r under s: the
\* event goes to the cache and, if the registry has s, to the subscriber.
LiveEvent(s, r) ==
    /\ r \in relaySubs[s]
    /\ ListenerFinds(subscriptions, s)
    /\ obs' = [obs EXCEPT ![s].live = @ \/ (subTask[s].pc = "replay" /\ subTask[s].left > 0),
                           ![s].afterClose = @ \/ obs[s].closed]
    /\ UNCHANGED <<retryTask, client, connected, subscriptions, relaySubs, eoseDue, subTask, unsubTask>>

\* Listener task, RelayMessage::EndOfStoredEvents from relay r under s: one
\* WorkerResponse::Eose per relay that answers, if the registry has s.
RelayEose(s, r) ==
    /\ r \in eoseDue[s]
    /\ eoseDue' = [eoseDue EXCEPT ![s] = @ \ {r}]
    /\ IF ListenerFinds(subscriptions, s)
       THEN obs' = [obs EXCEPT ![s].eose = IF @ < 2 THEN @ + 1 ELSE @,
                               ![s].afterClose = @ \/ obs[s].closed]
       ELSE UNCHANGED obs
    /\ UNCHANGED <<retryTask, client, connected, subscriptions, relaySubs, subTask, unsubTask>>

\* Faulty variant of RetryNeeded: the filter is inverted.
RetryNeededInverted(sub) == sub.present /\ sub.sent_to # {}

\* retry_pending_subscriptions' filter: active.sent_to.is_empty().
RetryNeeded(sub) == sub.present /\ sub.sent_to = {}

\* retry_pending_subscriptions for one pending entry (the task started by
\* start_event_listener runs it every 2 s), up to the end of its
\* client.subscribe_with_id: the REQ goes to the connected relays.
RetryIssue(s) ==
    /\ client
    /\ retryTask[s].pc = "idle"
    /\ RetryNeeded(subscriptions[s])
    /\ retryTask' = [retryTask EXCEPT ![s] = [pc |-> "record", left |-> 0, accepted |-> connected]]
    /\ relaySubs' = [relaySubs EXCEPT ![s] = @ \cup connected]
    /\ eoseDue' = [eoseDue EXCEPT ![s] = @ \cup connected]
    /\ UNCHANGED <<client, connected, subscriptions, subTask, unsubTask, obs>>

\* retry_pending_subscriptions after the await.  ok: subscribe_with_id
\* answered Ok(output), and sent_to of the entry, if the registry still has
\* one, becomes output.success; with no relay reached it may answer Err,
\* which changes nothing.
RetryRecord(s, ok) ==
    /\ retryTask[s].pc = "record"
    /\ retryTask' = [retryTask EXCEPT ![s] = NoTask]
    /\ subscriptions' = [subscriptions EXCEPT
                            ![s] = IF ok /\ @.present
                                   THEN ActiveSubscription(retryTask[s].accepted, "retry")
                                   ELSE @]
    /\ UNCHANGED <<client, connected, relaySubs, eoseDue, subTask, unsubTask, obs>>

\* subscribe_with_id can fail only when it reached no relay.
RetryResults(accepted) == IF accepted = {} THEN BOOLEAN ELSE {TRUE}

\* The handlers and tasks that read or write the registry.
NextRegistry ==
    \/ \E r \in Relays : RelayConnect(r)
    \/ \E r \in Relays : RelayDisconnect(r)
    \/ \E s \in SubIds, n \in 0..MaxCached : StartSubscribe(s, n)
    \/ \E s \in SubIds : ReplayEmit(s)
    \/ \E s \in SubIds : IssueSubscribe(s)
    \/ \E s \in SubIds : InsertSubscribe(s)
    \/ \E s \in SubIds : UnsubRemove(s)
    \/ \E s \in SubIds : UnsubClose(s)
    \/ \E s \in SubIds : RetryIssue(s)
    \/ \E s \in SubIds : \E ok \in RetryResults(retryTask[s].accepted) : RetryRecord(s, ok)

\* The registry's handlers together with the listener task.
NextNostr ==
    \/ NextRegistry
    \/ \E s \in SubIds, r \in Relays : LiveEvent(s, r)
    \/ \E s \in SubIds, r \in Relays : RelayEose(s, r)

(***************************************************************************)
(* /relay proxy: the per-connection channel between the forwarder and the  *)
(* WebSocket (relay_proxy.rs, handle_connection)                           *)
(***************************************************************************)
\* tokio::sync::mpsc::channel::<String>(100).
ChannelCapacity == 100

InitChan ==
    /\ chanLen = 0
    /\ fwd = "recv"
    /\ rxOpen = TRUE
    /\ chanConn = "open"
    /\ waited = FALSE

\* tx.send(msg).await on the bounded channel: "ok" when there is room,
\* "closed" when the receiver was dropped, "full" otherwise; on "full" the
\* future stays pending until a slot is freed.
SendOutcome(len, open) ==
    IF ~open THEN "closed" ELSE IF len < ChannelCapacity THEN "ok" ELSE "full"

\* Forwarder task: notifications.recv() yields an Event, EOSE or OK
\* notification that has a message to forward.
ForwarderRecv ==
    /\ chanConn = "open"
    /\ fwd = "recv"
    /\ fwd' = "send"
    /\ UNCHANGED <<chanLen, rxOpen, chanConn, waited>>

\* Forwarder task at tx.send(msg.to_string()).await: the message is queued,
\* or the send fails and the task returns, or the task waits for room.
ForwarderSend ==
    /\ chanConn = "open"
    /\ fwd = "send"
    /\ LET outcome == SendOutcome(chanLen, rxOpen) IN
         /\ chanLen' = IF outcome = "ok" THEN chanLen + 1 ELSE chanLen
         /\ fwd' = CASE outcome = "ok" -> "recv"
                     [] outcome = "closed" -> "stopped"
                     [] OTHER -> "send"
         /\ waited' = (waited \/ outcome = "full")
    /\ UNCHANGED <<rxOpen, chanConn>>

\* handle_connection / handle_message queue a NOTICE or an OK on the same
\* channel.
HandlerSend ==
    /\ chanConn = "open"
    /\ SendOutcome(chanLen, rxOpen) = "ok"
    /\ chanLen' = chanLen + 1
    /\ UNCHANGED <<fwd, rxOpen, chanConn, waited>>

\* forward_to_ws task: rx.recv() takes a message and the socket accepts it.
\* A client that does not read leaves this step untaken.
WsDrain ==
    /\ chanConn = "open"
    /\ rxOpen
    /\ chanLen > 0
    /\ chanLen' = chanLen - 1
    /\ UNCHANGED <<fwd, rxOpen, chanConn, waited>>

\* forward_to_ws task: sender.send fails, the task breaks out of its loop and
\* the receiver is dropped with what it held.
WsSendFails ==
    /\ chanConn = "open"
    /\ rxOpen
    /\ chanLen > 0
    /\ rxOpen' = FALSE
    /\ chanLen' = 0
    /\ UNCHANGED <<fwd, chanConn, waited>>

\* The receive loop of handle_connection ends (Close frame or socket error):
\* forwarder.abort(), forward_to_ws.abort().
ChanDisconnect ==
    /\ chanConn = "open"
    /\ chanConn' = "closed"
    /\ fwd' = "stopped"
    /\ rxOpen' = FALSE
    /\ chanLen' = 0
    /\ UNCHANGED waited

NextChan ==
    \/ ForwarderRecv
    \/ ForwarderSend
    \/ HandlerSend
    \/ WsDrain
    \/ WsSendFails
    \/ ChanDisconnect

(***************************************************************************)
(* /htree range requests (htree.rs: parse_range_header,                    *)
(* read_range_or_full, handle_htree_request)                               *)
(***************************************************************************)
MaxFileSize == 3
ChunkLen == 2

\* One piece of a Range header value between the '-' separators: the empty
\* string, a decimal number, or anything that usize::parse rejects.
EmptyTok == [kind |-> "empty", val |-> 0]
JunkTok == [kind |-> "junk", val |-> 0]
NumTok(n) == [kind |-> "num", val |-> n]
RangeTokens == {EmptyTok, JunkTok} \cup {NumTok(n) : n \in 0..(MaxFileSize + 1)}

\* A Range header: absent, or a value that does or does not start with
\* "bytes=", whose remainder split('-') cuts into one to three pieces.
NoRange == [present |-> FALSE, prefix |-> FALSE, parts |-> <<EmptyTok>>]
RangeHeaders ==
    {NoRange} \cup
    [present : {TRUE}, prefix : BOOLEAN, parts : UNION {[1..n -> RangeTokens] : n \in 1..3}]

\* The file the requested nhash names, in the store or not: byte i of the
\* file is i.
RangeFiles == [present : BOOLEAN, size : 0..MaxFileSize, keyed : BOOLEAN]
Bytes(size) == [i \in 1..size |-> i - 1]
Slice(data, from, to) == SubSeq(data, from + 1, IF to < Len(data) THEN to ELSE Len(data))

NoneRange == [some |-> FALSE, start |-> 0, end |-> 0]
SaturatingSub(a, b) == IF a > b THEN a - b ELSE 0

parse_range_header_unclamped(range_header, total_size) ==
    IF total_size = 0 \/ ~range_header.prefix \/ Len(range_header.parts) # 2 THEN NoneRange
    ELSE LET first == range_header.parts[1]
             second == range_header.parts[2]
         IN  IF first.kind = "junk" \/ second.kind = "junk" THEN NoneRange
             ELSE IF first.kind = "empty" /\ second.kind = "empty" THEN NoneRange
             ELSE LET start == IF first.kind = "empty"
                                 THEN SaturatingSub(total_size, second.val)
                                 ELSE first.val
                      end == IF second.kind = "empty" THEN total_size - 1 ELSE second.val
                  IN  IF start > end \/ start >= total_size THEN NoneRange
                      ELSE [some |-> TRUE, start |-> start, end |-> end]

parse_range_header_unvalidated(range_header, total_size) ==
    IF total_size = 0 \/ ~range_header.prefix \/ Len(range_header.parts) # 2 THEN NoneRange
    ELSE LET first == range_header.parts[1]
             second == range_header.parts[2]
         IN  IF first.kind = "junk" \/ second.kind = "junk" THEN NoneRange
             ELSE IF first.kind = "empty" /\ second.kind = "empty" THEN NoneRange
             ELSE LET start == IF first.kind = "empty"
                                 THEN SaturatingSub(total_size, second.val)
                                 ELSE first.val
                      end == IF second.kind = "empty" THEN total_size - 1 ELSE second.val
                  IN  [some |-> TRUE, start |-> start,
                       end |-> IF end < total_size - 1 THEN end ELSE total_size - 1]

parse_range_header(range_header, total_size) ==
    IF total_size = 0 \/ ~range_header.prefix \/ Len(range_header.parts) # 2 THEN NoneRange
    ELSE LET first == range_header.parts[1]
             second == range_header.parts[2]
         IN  IF first.kind = "junk" \/ second.kind = "junk" THEN NoneRange
             ELSE IF first.kind = "empty" /\ second.kind = "empty" THEN NoneRange
             ELSE LET start == IF first.kind = "empty"
                                 THEN SaturatingSub(total_size, second.val)
                                 ELSE first.val
                      end == IF second.kind = "empty" THEN total_size - 1 ELSE second.val
                  IN  IF start > end \/ start >= total_size THEN NoneRange
                      ELSE [some |-> TRUE, start |-> start,
                            end |-> IF end < total_size - 1 THEN end ELSE total_size - 1]

\* A file larger than one chunk is stored as a tree node whose links carry
\* the chunk sizes; get_file_size sums them.
RECURSIVE Links(_)
Links(size) == IF size <= ChunkLen THEN <<size>> ELSE <<ChunkLen>> \o Links(size - ChunkLen)
RECURSIVE SumSeq(_)
SumSeq(s) == IF s = <<>> THEN 0 ELSE Head(s) + SumSeq(Tail(s))
get_file_size(f) == IF f.size <= ChunkLen THEN f.size ELSE SumSeq(Links(f.size))
read_file(f) == Bytes(f.size)
read_file_range(f, start, end) == Slice(Bytes(f.size), start, end)

NoRangeInfo == [some |-> FALSE, start |-> 0, end |-> 0, total |-> 0]
read_range_or_full(f, range_header) ==
    IF ~f.present THEN [err |-> "FileNotFound", data |-> <<>>, range_info |-> NoRangeInfo]
    ELSE IF ~range_header.present
      THEN [err |-> "", data |-> read_file(f), range_info |-> NoRangeInfo]
    ELSE LET total_size == IF f.keyed THEN Len(read_file(f)) ELSE get_file_size(f)
             r == parse_range_header(range_header, total_size)
         IN  IF ~r.some
               THEN [err |-> "", data |-> read_file(f), range_info |-> NoRangeInfo]
             ELSE [err |-> "",
                   data |-> IF f.keyed THEN Slice(read_file(f), r.start, r.end + 1)
                                       ELSE read_file_range(f, r.start, r.end + 1),
                   range_info |-> [some |-> TRUE, start |-> r.start, end |-> r.end,
                                   total |-> total_size]]

\* The response of handle_htree_request once the path has resolved to a file
\* CID: status, Content-Range (when has_range) and body.
NoResponse == [status |-> 0, has_range |-> FALSE, start |-> 0, end |-> 0, total |-> 0,
               body |-> <<>>]
RangeResponse(f, range_header) ==
    LET r == read_range_or_full(f, range_header)
    IN  IF r.err # ""
          THEN [status |-> 404, has_range |-> FALSE, start |-> 0, end |-> 0, total |-> 0,
                body |-> <<>>]
        ELSE IF r.range_info.some
          THEN [status |-> 206, has_range |-> TRUE, start |-> r.range_info.start,
                end |-> r.range_info.end, total |-> r.range_info.total, body |-> r.data]
        ELSE [status |-> 200, has_range |-> FALSE, start |-> 0, end |-> 0, total |-> 0,
              body |-> r.data]

NoRequest == [header |-> NoRange, file |-> [present |-> FALSE, size |-> 0, keyed |-> FALSE]]
InitRange ==
    /\ rangeReq = NoRequest
    /\ rangeResp = NoResponse

\* GET /htree/{nhash} arrives: the file the nhash names and the Range header.
ReceiveRangeRequest ==
    /\ rangeReq = NoRequest
    /\ rangeResp = NoResponse
    /\ \E f \in RangeFiles : \E h \in RangeHeaders : rangeReq' = [header |-> h, file |-> f]
    /\ UNCHANGED rangeResp

\* handle_htree_request answers it.
HandleRangeRequest ==
    /\ rangeResp = NoResponse
    /\ rangeResp' = RangeResponse(rangeReq.file, rangeReq.header)
    /\ UNCHANGED rangeReq

NextRange ==
    \/ ReceiveRangeRequest
    \/ HandleRangeRequest

(***************************************************************************)
(* /htree gateway: resolve_htree_inner, resolve_npub, resolve_tree and the *)
(* two front ends handle_htree_request (HTTP) and handle_htree_protocol    *)
(* (htree:// URI scheme) of htree.rs                                       *)
(***************************************************************************)
\* Root-cache keys of one npub: "{npub}/{treeName}" and the fallback
\* "{npub}/{treeName}/{first}".
GwKeys == {"tree", "tree/first"}

\* Roots the resolver can announce: a plaintext tree and an encrypted one.
GwRoots == {[hash |-> Sha("node"), key |-> None], [hash |-> Sha("cipher"), key |-> "key1"]}
\* Roots the frontend can store with cache_tree_root: also the encrypted
\* tree without its key.
GwCached == GwRoots \cup {[hash |-> Sha("cipher"), key |-> None]}

\* The file path behind the tree name, cut at '/': empty, one segment, two
\* segments, or a path whose first segment is empty.
GwPaths == {<<>>, <<"first">>, <<"first", "rest">>, <<"", "rest">>}
\* A request: the path, whether the raw path carries an encoded query
\* ("...%3Fv") after its last segment, and the Range header.
GwHeaders ==
    {NoRange,
     [present |-> TRUE, prefix |-> TRUE, parts |-> <<NumTok(0), NumTok(0)>>],
     [present |-> TRUE, prefix |-> TRUE, parts |-> <<NumTok(1), NumTok(0)>>]}
GwRequests ==
    {r \in [path : GwPaths, query : BOOLEAN, header : GwHeaders] :
        r.query => r.path = <<"first", "rest">>}

\* The resolver's answers for the two keys and Blossom's behaviour while the
\* request runs.
GwAnswers == {a \in [kind : ResolveKinds, cid : GwRoots \cup {NoEntry}] :
                 (a.kind = "found") = (a.cid # NoEntry)}
GwEnvs ==
    {v \in [first : GwAnswers, second : GwAnswers, outcome : RemoteOutcomes, cacheOk : BOOLEAN] :
        v.cacheOk \in WriteThrough(v.outcome)}

\* handle_htree_request takes uri.path(), strips "/htree/" and url_decode
\* turns "%3F" into '?', which stays part of the last segment.
HttpPath(r) == IF r.query THEN <<"first", "rest?v">> ELSE r.path
\* handle_htree_protocol cuts the path at '?', "%3F" or "%3f" first.
ProtocolPath(r) == r.path

\* resolve_tree as a function of the cache, the store and the environment.
resolve_tree(rc, store, k, answer, env) ==
    LET entry == rc[k]
        probe == entry # NoEntry /\ entry.key = None
        g     == CombinedGet(store, entry.hash, env.outcome, env.cacheOk)
        hit   == entry # NoEntry /\ CacheHit(entry, IF probe THEN g.data ELSE Missing)
        after == IF probe THEN g.store ELSE store
    IN  IF hit
          THEN [variant |-> "", cid |-> entry, rc |-> rc, store |-> after,
                step |-> [key |-> k, via |-> "cache"]]
        ELSE IF answer.kind = "found"
          THEN [variant |-> "", cid |-> answer.cid, rc |-> cache_root(rc, k, answer.cid),
                store |-> after, step |-> [key |-> k, via |-> "found"]]
        ELSE [variant |-> IF answer.kind = "notfound" THEN "TreeNotFound" ELSE "Resolver",
              cid |-> NoEntry, rc |-> rc, store |-> after,
              step |-> [key |-> k, via |-> answer.kind]]

\* decrypt_chk: only the ciphertext of the tree node decrypts under the key.
Decrypt(data, key) ==
    IF key = None THEN data ELSE IF data = "cipher" THEN "node" ELSE "undecryptable"

\* HashTree::resolve_path: the tree holds the files "first" and "rest".
LeafCid == [hash |-> Sha("leaf"), key |-> None]
resolve_path(store, root, path, env) ==
    LET g     == CombinedGet(store, root.hash, env.outcome, env.cacheOk)
        plain == Decrypt(g.data, root.key)
    IN  IF g.err \/ (g.data # Missing /\ plain = "undecryptable")
          THEN [variant |-> "Store", cid |-> NoEntry, store |-> g.store]
        ELSE IF g.data # Missing /\ is_tree_node(plain) /\ path \in {<<"first">>, <<"rest">>}
          THEN [variant |-> "", cid |-> LeafCid, store |-> g.store]
        ELSE [variant |-> "FileNotFound", cid |-> NoEntry, store |-> g.store]

\* resolve_npub: the tree root, with the one-level fallback, then the file.
resolve_npub(rc, store, file_path, env) ==
    LET r1 == resolve_tree(rc, store, "tree", env.first, env)
        r2 == resolve_tree(r1.rc, r1.store, "tree/first", env.second, env)
        fallback == r1.variant = "TreeNotFound" /\ file_path # <<>>
        tried == fallback /\ Head(file_path) # ""
        root == IF tried THEN r2 ELSE r1
        trace == IF tried THEN <<r1.step, r2.step>> ELSE <<r1.step>>
        rest == IF tried THEN Tail(file_path) ELSE file_path
        p == resolve_path(root.store, root.cid, rest, env)
    IN  IF fallback /\ ~tried
          THEN [variant |-> "TreeNotFound", msg |-> "npub/tree", cid |-> NoEntry,
                rc |-> r1.rc, store |-> r1.store, trace |-> trace]
        ELSE IF root.variant = "TreeNotFound"
          THEN [variant |-> "TreeNotFound", msg |-> "npub/tree", cid |-> NoEntry,
                rc |-> root.rc, store |-> root.store, trace |-> trace]
        ELSE IF root.variant # ""
          THEN [variant |-> root.variant, msg |-> root.step.via, cid |-> NoEntry,
                rc |-> root.rc, store |-> root.store, trace |-> trace]
        ELSE IF rest = <<>>
          THEN [variant |-> "", msg |-> "", cid |-> root.cid,
                rc |-> root.rc, store |-> root.store, trace |-> trace]
        ELSE [variant |-> p.variant, msg |-> IF p.variant = "" THEN "" ELSE "path",
              cid |-> p.cid, rc |-> root.rc, store |-> p.store, trace |-> trace]

\* read_range_or_full on the resolved file: the block is fetched through the
\* tiered store and decrypted; a tree node stands for a 3-byte file, a leaf
\* for a 2-byte one.
FileOf(plain, cid) ==
    [present |-> TRUE, size |-> IF plain = "leaf" THEN 2 ELSE 3, keyed |-> cid.key # None]
ReadResolved(n, header, env) ==
    LET g     == CombinedGet(n.store, n.cid.hash, env.outcome, env.cacheOk)
        plain == Decrypt(g.data, n.cid.key)
        r     == read_range_or_full(FileOf(plain, n.cid), header)
        none  == [data |-> <<>>, range_info |-> NoRangeInfo]
    IN  IF n.variant # ""
          THEN [variant |-> n.variant, msg |-> n.msg, block |-> Missing, read |-> none,
                rc |-> n.rc, store |-> n.store, trace |-> n.trace]
        ELSE IF g.err \/ (g.data # Missing /\ plain = "undecryptable")
          THEN [variant |-> "Store", msg |-> "store", block |-> Missing, read |-> none,
                rc |-> n.rc, store |-> g.store, trace |-> n.trace]
        ELSE IF g.data = Missing
          THEN [variant |-> "FileNotFound", msg |-> n.cid.hash, block |-> Missing, read |-> none,
                rc |-> n.rc, store |-> g.store, trace |-> n.trace]
        ELSE [variant |-> "", msg |-> "", block |-> plain,
              read |-> [data |-> r.data, range_info |-> r.range_info],
              rc |-> n.rc, store |-> g.store, trace |-> n.trace]

\* resolve_htree_inner for an npub path followed by read_range_or_full.
Serve(rc, store, file_path, header, env) ==
    ReadResolved(resolve_npub(rc, store, file_path, env), header, env)

\* Display of HtreeError: the variant's prefix and the message.
Display(variant, msg) ==
    <<CASE variant = "TreeNotFound" -> "Tree not found: "
        [] variant = "FileNotFound" -> "File not found: "
        [] variant = "InvalidPath" -> "Invalid path: "
        [] variant = "Resolver" -> "Resolver error: "
        [] OTHER -> "Store error: ", msg>>
StatusOf(variant) ==
    IF variant \in {"TreeNotFound", "FileNotFound"} THEN 404
    ELSE IF variant = "InvalidPath" THEN 400 ELSE 500

GwNoResponse == [status |-> 0, has_range |-> FALSE, start |-> 0, end |-> 0, total |-> 0,
                 body |-> <<>>, block |-> Missing, text |-> <<>>, trace |-> <<>>]
Success(s) ==
    [status |-> IF s.read.range_info.some THEN 206 ELSE 200,
     has_range |-> s.read.range_info.some,
     start |-> s.read.range_info.start, end |-> s.read.range_info.end,
     total |-> s.read.range_info.total,
     body |-> s.read.data, block |-> s.block, text |-> <<>>, trace |-> s.trace]
Failure(s, text) ==
    [status |-> StatusOf(s.variant), has_range |-> FALSE, start |-> 0, end |-> 0, total |-> 0,
     body |-> <<>>, block |-> Missing, text |-> text, trace |-> s.trace]

\* HtreeError::into_response: the body is the error's Display.
HttpResponse(s) ==
    IF s.variant = "" THEN Success(s) ELSE Failure(s, Display(s.variant, s.msg))
\* handle_htree_protocol: 404 and 400 carry the bare message, 500 the Display.
ProtocolResponse(s) ==
    IF s.variant = "" THEN Success(s)
    ELSE Failure(s, IF StatusOf(s.variant) = 500 THEN Display(s.variant, s.msg) ELSE <<s.msg>>)

InitGateway ==
    /\ gwCache = [k \in GwKeys |-> NoEntry]
    /\ gwLocal = [h \in Hashes |-> Missing]
    /\ gwReq = [path |-> <<>>, query |-> FALSE, header |-> NoRange]
    /\ gwResp = GwNoResponse
    /\ gwProto = GwNoResponse
    /\ gwAgain = GwNoResponse

\* A block is stored locally (worker put) or evicted.
GwStorePut(b) ==
    /\ gwResp = GwNoResponse
    /\ gwLocal' = LocalPut(gwLocal, Sha(b), b)
    /\ UNCHANGED <<gwCache, gwReq, gwResp, gwProto, gwAgain>>
GwStoreDelete(h) ==
    /\ gwResp = GwNoResponse
    /\ gwLocal' = LocalDelete(gwLocal, h)
    /\ UNCHANGED <<gwCache, gwReq, gwResp, gwProto, gwAgain>>
\* cache_tree_root command.
GwCacheTreeRoot(k, cid) ==
    /\ gwResp = GwNoResponse
    /\ gwCache' = cache_root(gwCache, k, cid)
    /\ UNCHANGED <<gwLocal, gwReq, gwResp, gwProto, gwAgain>>

\* GET /htree/{npub}/tree/{path} through handle_htree_request.  Recorded with
\* it: what handle_htree_protocol answers for the same request from the same
\* cache and store, and what handle_htree_request answers when the request
\* is repeated at once, the resolver and Blossom behaving as before.
GwRequest ==
    /\ gwResp = GwNoResponse
    /\ \E r \in GwRequests : \E env \in GwEnvs :
          LET s == Serve(gwCache, gwLocal, HttpPath(r), r.header, env)
          IN  /\ gwReq' = r
              /\ gwResp' = HttpResponse(s)
              /\ gwProto' = ProtocolResponse(Serve(gwCache, gwLocal, ProtocolPath(r), r.header, env))
              /\ gwAgain' = HttpResponse(Serve(s.rc, s.store, HttpPath(r), r.header, env))
              /\ gwCache' = s.rc
              /\ gwLocal' = s.store

\* The response has been written; the gateway is ready for the next request.
GwDone ==
    /\ gwResp # GwNoResponse
    /\ gwResp' = GwNoResponse
    /\ gwProto' = GwNoResponse
    /\ gwAgain' = GwNoResponse
    /\ gwReq' = [path |-> <<>>, query |-> FALSE, header |-> NoRange]
    /\ UNCHANGED <<gwCache, gwLocal>>

NextGateway ==
    \/ \E b \in Blocks : GwStorePut(b)
    \/ \E h \in Hashes : GwStoreDelete(h)
    \/ \E k \in GwKeys, cid \in GwCached : GwCacheTreeRoot(k, cid)
    \/ GwRequest
    \/ GwDone

(***************************************************************************)
(* Worker tree walk and Blossom push (worker/tree.rs walk_blocks,          *)
(* worker/mod.rs PushToBlossom)                                            *)
(***************************************************************************)
\* One unencrypted tree: the root links to a directory and a file, the
\* directory to two files, one of them the file the root links to as well.
WalkBlocks == {"root", "dir", "file1", "file2"}
TreeLinks(h) ==
    CASE h = "root" -> <<"dir", "file1">>
      [] h = "dir" -> <<"file1", "file2">>
      [] OTHER -> <<>>

\* A block's links are found when it decodes as a tree node: directly for a
\* CID without key, after decrypt_chk for a CID with one, which fails on
\* these plaintext blocks.
DecodedLinks(h, key) == IF key = None THEN TreeLinks(h) ELSE <<>>

\* walk_blocks_recursive: depth first, each hash once; a block the store
\* does not have is skipped.
RECURSIVE walk_blocks_recursive(_, _, _, _)
RECURSIVE WalkChildren(_, _, _, _)
walk_blocks_recursive(store, hash, key, acc) ==
    IF hash \in acc.visited THEN acc
    ELSE LET seen == [acc EXCEPT !.visited = @ \cup {hash}]
         IN  IF hash \notin store THEN seen
             ELSE WalkChildren(store, DecodedLinks(hash, key), None,
                               [seen EXCEPT !.blocks = Append(@, hash)])
WalkChildren(store, links, key, acc) ==
    IF links = <<>> THEN acc
    ELSE WalkChildren(store, Tail(links), key,
                      walk_blocks_recursive(store, Head(links), key, acc))

\* walk_blocks: Err for a hash or key that is not valid hex, else the list
\* the recursion collected.
walk_blocks(store, cid) ==
    IF ~cid.valid THEN [ok |-> FALSE, blocks |-> <<>>]
    ELSE [ok |-> TRUE,
          blocks |-> walk_blocks_recursive(store, cid.hash, cid.key,
                                           [blocks |-> <<>>, visited |-> {}]).blocks]

Elems(s) == {s[i] : i \in DOMAIN s}
\* Every block of the tree below h.
Reachable(h) ==
    Elems(walk_blocks_recursive(WalkBlocks, h, None, [blocks |-> <<>>, visited |-> {}]).blocks)

WalkCids == [hash : WalkBlocks, key : {None}, valid : BOOLEAN]
NoWalk == [state |-> "none", cid |-> [hash |-> "root", key |-> None, valid |-> TRUE],
           blocks |-> <<>>, complete |-> FALSE, pushed |-> 0, skipped |-> 0, failed |-> 0]

InitWalk ==
    /\ wStore = {}
    /\ wBlossom = {}
    /\ lastPush = NoWalk

\* The local store gains or loses a block (put, eviction).
WalkStorePut(b) ==
    /\ wStore' = wStore \cup {b}
    /\ UNCHANGED <<wBlossom, lastPush>>
WalkStoreDelete(b) ==
    /\ wStore' = wStore \ {b}
    /\ UNCHANGED <<wBlossom, lastPush>>

\* WorkerRequest::PushToBlossom: walk the tree, upload every block of the
\* list.  The write servers accept uploads ("up"), refuse them as already
\* existing ("conflict") or fail ("down").
PushToBlossom(cid, servers) ==
    LET w == walk_blocks(wStore, cid)
        n == Len(w.blocks)
    IN  /\ wBlossom' = IF w.ok /\ servers = "up" THEN wBlossom \cup Elems(w.blocks) ELSE wBlossom
        /\ lastPush' = [state |-> IF w.ok THEN "PushResult" ELSE "Error",
                        cid |-> cid,
                        blocks |-> w.blocks,
                        complete |-> Reachable(cid.hash) \subseteq wStore,
                        pushed |-> IF w.ok /\ servers = "up" THEN n ELSE 0,
                        skipped |-> IF w.ok /\ servers = "conflict" THEN n ELSE 0,
                        failed |-> IF w.ok /\ servers = "down" THEN n ELSE 0]
        /\ UNCHANGED wStore

NextWalk ==
    \/ \E b \in WalkBlocks : WalkStorePut(b)
    \/ \E b \in WalkBlocks : WalkStoreDelete(b)
    \/ \E cid \in WalkCids, servers \in {"up", "conflict", "down"} : PushToBlossom(cid, servers)

(***************************************************************************)
(* Worker tree edits over the bounded local store (worker/tree.rs          *)
(* write_file, delete_file; worker/store.rs BlobStore over FsBlobStore)    *)
(***************************************************************************)
\* Capacity of the local store in blocks (max_bytes over equal-sized blocks).
MaxStore == 4

\* A directory node is the pair of the contents of its two entries (0: no
\* entry), a file leaf the one-element sequence of its content; a block is
\* its own address.
OrigRoot == <<1, 0>>
BlocksOf(root) == {root} \cup {<<root[i]>> : i \in {j \in 1..2 : root[j] # 0}}
InStore(store, b) == \E i \in DOMAIN store : store[i] = b

\* FsBlobStore::get: a hit makes the block the most recently accessed.
TouchBlock(store, b) ==
    SelectSeq(store, LAMBDA x : x # b) \o <<b>>

\* FsBlobStore::put with the lazy eviction that runs on put: a new block is
\* appended; above capacity the least recently accessed blocks go until the
\* store is at the high-watermark (90% of the maximum).  No block is pinned.
PutBlock(store, b) ==
    IF InStore(store, b) THEN store
    ELSE IF Len(store) + 1 <= MaxStore THEN Append(store, b)
    ELSE LET keep == (9 * MaxStore) \div 10
         IN  SubSeq(Append(store, b), Len(store) + 2 - keep, Len(store) + 1)

InitTree ==
    /\ tStore = <<<<1>>, OrigRoot>>
    /\ tRoot = OrigRoot

\* write_file(parent, name, data): tree.put(data), then set_entry on the
\* parent, which reads the parent node and stores the new root.
WriteFile(i, c) ==
    LET s1 == PutBlock(tStore, <<c>>)
        new == [tRoot EXCEPT ![i] = c]
    IN  IF InStore(s1, tRoot)
          THEN /\ tStore' = PutBlock(TouchBlock(s1, tRoot), new)
               /\ tRoot' = new
          ELSE /\ tStore' = s1
               /\ UNCHANGED tRoot

\* delete_file(parent, name): remove_entry reads the parent node and stores
\* the new root.
DeleteFile(i) ==
    /\ tRoot[i] # 0
    /\ InStore(tStore, tRoot)
    /\ tStore' = PutBlock(TouchBlock(tStore, tRoot), [tRoot EXCEPT ![i] = 0])
    /\ tRoot' = [tRoot EXCEPT ![i] = 0]

NextTree ==
    \/ \E i \in 1..2, c \in 1..2 : WriteFile(i, c)
    \/ \E i \in 1..2 : DeleteFile(i)

(***************************************************************************)
(* Gateway start-up: start_server, start_server_on_port and                *)
(* get_htree_server_url of htree.rs                                        *)
(***************************************************************************)
DefaultPort == 21417
\* Bound: ephemeral loopback ports the operating system can hand out.
NumEphemeral == 3
EphemeralPorts == {49152 + i : i \in 1..NumEphemeral}

NotStarted == [port |-> 0, entry |-> "none", conflict |-> FALSE]
InitServer ==
    /\ busy = {}
    /\ srv = NotStarted
    /\ urlGiven = 0

\* Another process binds or releases a loopback port.
OtherBind(p) ==
    /\ p \notin busy /\ p # srv.port
    /\ busy' = busy \cup {p}
    /\ UNCHANGED <<srv, urlGiven>>
OtherRelease(p) ==
    /\ p \in busy
    /\ busy' = busy \ {p}
    /\ UNCHANGED <<srv, urlGiven>>

\* TcpListener::bind(("127.0.0.1", port)): port 0 asks for any free
\* ephemeral port; -1 stands for the bind error.
Bind(port) ==
    IF port = 0 THEN IF EphemeralPorts \subseteq busy THEN {-1} ELSE EphemeralPorts \ busy
    ELSE IF port \in busy THEN {-1} ELSE {port}

\* start_server, run once by the application's setup: binds the default
\* port; a bind error is returned to the caller, which logs it.
StartServer ==
    /\ srv = NotStarted
    /\ \E bound \in Bind(DefaultPort) :
          srv' = [port |-> bound, entry |-> "start_server", conflict |-> DefaultPort \in busy]
    /\ UNCHANGED <<busy, urlGiven>>

\* start_server_on_port(port), used with port 0 by the tests.
StartServerOnPort(port) ==
    /\ srv = NotStarted
    /\ \E bound \in Bind(port) :
          srv' = [port |-> bound, entry |-> "start_server_on_port", conflict |-> port \in busy]
    /\ UNCHANGED <<busy, urlGiven>>

\* get_htree_server_url command.
GetServerUrl ==
    /\ urlGiven' = DefaultPort
    /\ UNCHANGED <<busy, srv>>

NextServer ==
    \/ \E p \in EphemeralPorts \cup {DefaultPort} : OtherBind(p) \/ OtherRelease(p)
    \/ StartServer
    \/ \E port \in {0, DefaultPort} : StartServerOnPort(port)
    \/ GetServerUrl

(***************************************************************************)
(* Child webviews and their session tokens (nip07.rs: create_nip07_webview,*)
(* create_htree_webview)                                                   *)
(***************************************************************************)
NumWebviews == 2
WebviewLabels == 1..NumWebviews
\* A label no webview is open under.
NoWebview == [origin |-> 0, token |-> NoToken]

InitWebview ==
    /\ wvSessions = [o \in Origins |-> NoToken]
    /\ wvOpen = [l \in WebviewLabels |-> NoWebview]
    /\ wvNextToken = 1
    /\ wvLast = NoValidate

\* create_nip07_webview / create_htree_webview: new_session(origin) stores a
\* fresh UUID under the origin, and the initialization script of the new
\* webview carries it.
CreateWebview(label, o) ==
    /\ wvOpen[label] = NoWebview
    /\ wvNextToken <= MaxTokens
    /\ wvSessions' = [wvSessions EXCEPT ![o] = wvNextToken]
    /\ wvOpen' = [wvOpen EXCEPT ![label] = [origin |-> o, token |-> wvNextToken]]
    /\ wvNextToken' = wvNextToken + 1
    /\ wvLast' = NoValidate

\* The shell closes a child webview; nothing calls clear_session.
CloseWebview(label) ==
    /\ wvOpen[label] # NoWebview
    /\ wvOpen' = [wvOpen EXCEPT ![label] = NoWebview]
    /\ wvLast' = NoValidate
    /\ UNCHANGED <<wvSessions, wvNextToken>>

\* window.nostr of an open webview posts to /nip07 with the token of its
\* initialization script and its own origin; handle_nip07_request validates.
WebviewRequest(label) ==
    /\ wvOpen[label] # NoWebview
    /\ wvLast' = [origin |-> wvOpen[label].origin, token |-> wvOpen[label].token,
                  ok |-> validate_token(wvSessions, wvOpen[label].origin, wvOpen[label].token)]
    /\ UNCHANGED <<wvSessions, wvOpen, wvNextToken>>

NextWebview ==
    \/ \E l \in WebviewLabels, o \in Origins : CreateWebview(l, o)
    \/ \E l \in WebviewLabels : CloseWebview(l)
    \/ \E l \in WebviewLabels : WebviewRequest(l)

(***************************************************************************)
(* History store (history.rs: record_visit, evict_oldest)                  *)
(***************************************************************************)
\* MAX_HISTORY_ENTRIES, the largest visit_count (u32::MAX) and the largest
\* last_visited, scaled down.  EvictDivisor is the 10 of entries.len() / 10,
\* scaled with the capacity: an eviction at capacity removes several entries,
\* as the 100 of 1000 are.
MaxHistoryEntries == 4
EvictDivisor == 2
MaxVisitCount == 1
MaxTime == 2
HistPaths == 1..(MaxHistoryEntries + 1)
\* A path without an entry in the database.  The fields of HistoryEntry that
\* no operation reads (label, entry_type, npub, first_visited) are left out.
NoHist == [visit_count |-> -1, last_visited |-> 0]
NoVisit == [path |-> 0, was |-> NoHist, now |-> NoHist, ok |-> FALSE]
HistLen(db) == Cardinality({p \in HistPaths : db[p] # NoHist})

InitHistory ==
    /\ hDb = [p \in HistPaths |-> NoHist]
    /\ entry_count = 0
    /\ hLast = NoVisit

\* evict_oldest: the entries sorted by last_visited (a stable sort of the
\* key-ordered iteration), the first max(len / EvictDivisor, 1) of them deleted.
evict_oldest(db) ==
    LET present == {p \in HistPaths : db[p] # NoHist}
        tenth == Cardinality(present) \div EvictDivisor
        to_remove == IF tenth > 1 THEN tenth ELSE 1
        Before(q, p) == \/ db[q].last_visited < db[p].last_visited
                        \/ db[q].last_visited = db[p].last_visited /\ q < p
        gone == {p \in present : Cardinality({q \in present : Before(q, p)}) < to_remove}
    IN  [db |-> [p \in HistPaths |-> IF p \in gone THEN NoHist ELSE db[p]],
         removed |-> Cardinality(gone)]

\* record_visit(entry).  put_ok: db.put and wtxn.commit succeed (LMDB refuses
\* a key longer than its maximum key size, a full map, a failed write); the
\* write transaction is then dropped, which undoes what it deleted or put,
\* and entry_count keeps what was done to it.  checked: the build checks
\* arithmetic overflow (visit_count += 1 at u32::MAX panics) or wraps.
\* The run is cut off where entry_count has drifted two past the capacity.
RecordVisit(path, visit_count, last_visited, put_ok, checked) ==
    LET existing == hDb[path]
        overflow == existing # NoHist /\ existing.visit_count = MaxVisitCount
        evicted == IF existing = NoHist /\ entry_count >= MaxHistoryEntries
                     THEN evict_oldest(hDb) ELSE [db |-> hDb, removed |-> 0]
        updated_entry ==
            IF existing # NoHist
              THEN [visit_count |-> (existing.visit_count + 1) % (MaxVisitCount + 1),
                    last_visited |-> last_visited]
              ELSE [visit_count |-> visit_count, last_visited |-> last_visited]
        done == put_ok /\ ~(overflow /\ checked)
    IN  /\ hLast = NoVisit
        /\ entry_count < MaxHistoryEntries + 2
        /\ entry_count' = IF existing # NoHist THEN entry_count
                          ELSE entry_count - evicted.removed + 1
        /\ hDb' = IF done THEN [evicted.db EXCEPT ![path] = updated_entry] ELSE hDb
        /\ hLast' = [path |-> path, was |-> existing,
                     now |-> IF done THEN updated_entry ELSE existing, ok |-> done]

\* The caller has seen the result.
HistoryDone ==
    /\ hLast # NoVisit
    /\ hLast' = NoVisit
    /\ UNCHANGED <<hDb, entry_count>>

NextHistory ==
    \/ \E path \in HistPaths, visit_count \in 0..MaxVisitCount, last_visited \in 1..MaxTime,
          put_ok \in BOOLEAN, checked \in BOOLEAN :
         RecordVisit(path, visit_count, last_visited, put_ok, checked)
    \/ HistoryDone

(***************************************************************************)
(* History search (history.rs: search, fuzzy_score, fuzzy_match_string)    *)
(***************************************************************************)
\* Strings are sequences of characters: 1 is "a", 2 is "b", 3 is "A" and 4 is
\* "/".  Scores are in thousandths.
MaxStrLen == 3
MaxQueryLen == 2
Chars == 1..4
Strings(n) == UNION {[1..k -> Chars] : k \in 0..n}
to_lowercase(s) == [i \in DOMAIN s |-> IF s[i] = 3 THEN 1 ELSE s[i]]
is_alphanumeric(c) == c # 4
starts_with(t, q) == Len(q) <= Len(t) /\ SubSeq(t, 1, Len(q)) = q
contains(t, q) == \E i \in 0..(Len(t) - Len(q)) : SubSeq(t, i + 1, i + Len(q)) = q

\* The loop of fuzzy_match_string over target_chars from index i on (1-based),
\* with query_idx characters of the query consumed, the score so far and the
\* index of the previous match (0: none).
RECURSIVE SubsequenceScore(_, _, _, _, _, _)
SubsequenceScore(query, target, i, query_idx, score, prev) ==
    IF i > Len(target)
      THEN IF query_idx = Len(query) THEN score ELSE 0
    ELSE IF query_idx < Len(query) /\ target[i] = query[query_idx + 1]
      THEN SubsequenceScore(query, target, i + 1, query_idx + 1,
               score + (IF prev # 0 /\ i = prev + 1 THEN 500 ELSE 0)
                     + (IF i = 1 \/ ~is_alphanumeric(target[IF i = 1 THEN 1 ELSE i - 1])
                          THEN 300 ELSE 0)
                     + 200,
               i)
    ELSE SubsequenceScore(query, target, i + 1, query_idx, score, prev)

\* The words of target.split(|c| !c.is_alphanumeric()), in order.
RECURSIVE SplitWords(_, _)
SplitWords(t, word) ==
    IF t = <<>> THEN <<word>>
    ELSE IF is_alphanumeric(Head(t)) THEN SplitWords(Tail(t), Append(word, Head(t)))
    ELSE <<word>> \o SplitWords(Tail(t), <<>>)

fuzzy_match_string(query, target) ==
    IF query = <<>> \/ target = <<>> THEN 0
    ELSE IF target = query THEN 10000
    ELSE IF starts_with(target, query) THEN 8000 + (1000 * Len(query)) \div Len(target)
    ELSE IF contains(target, query) THEN 5000 + (1000 * Len(query)) \div Len(target)
    ELSE LET words == SplitWords(target, <<>>)
             hits == {k \in DOMAIN words : starts_with(words[k], query)}
         IN  IF hits # {}
               THEN LET word == words[CHOOSE k \in hits : \A h \in hits : k <= h]
                    IN  4000 + (1000 * Len(query)) \div Len(word)
             ELSE SubsequenceScore(query, target, 1, 0, 0, 0)

\* 1000 * ln(1 + n) for n = 1, 2.
Ln1p == <<693, 1099>>
Max2(a, b) == IF a > b THEN a ELSE b

\* An absent tree_name is the empty sequence of length-one strings.
fuzzy_score(query, entry) ==
    LET label == fuzzy_match_string(query, to_lowercase(entry.label))
        path == (fuzzy_match_string(query, to_lowercase(entry.path)) * 8) \div 10
        tree == IF entry.tree_name = <<>> THEN 0
                ELSE (fuzzy_match_string(query, to_lowercase(entry.tree_name[1])) * 7) \div 10
        freq_boost == IF entry.visit_count = 0 THEN 0 ELSE Ln1p[entry.visit_count] \div 10
    IN  Max2(Max2(label, path), tree) + freq_boost

\* search(query, limit) over the database db, a sequence of entries in key
\* order: the entries of positive score sorted by score, then recency (the
\* sort is stable), cut to limit.
search(db, query, limit) ==
    IF query = <<>> THEN <<>>
    ELSE LET query_lower == to_lowercase(query)
             score == [i \in DOMAIN db |-> fuzzy_score(query_lower, db[i])]
             hit == {i \in DOMAIN db : score[i] > 0}
             Better(j, i) == \/ score[j] > score[i]
                             \/ score[j] = score[i] /\ db[j].last_visited > db[i].last_visited
                             \/ score[j] = score[i] /\ db[j].last_visited = db[i].last_visited
                                /\ j < i
             Rank(i) == 1 + Cardinality({j \in hit : Better(j, i)})
             n == IF Cardinality(hit) < limit THEN Cardinality(hit) ELSE limit
         IN  [r \in 1..n |->
                LET i == CHOOSE i \in hit : Rank(i) = r
                IN  [entry |-> db[i], score |-> score[i]]]

\* The databases searched: the entry of path "/b" labelled "b", and before it
\* any entry of path "/a".
SearchEntries ==
    [label : Strings(MaxStrLen), path : {<<4, 1>>}, tree_name : {<<>>, <<(<<2>>)>>},
     visit_count : 0..1, last_visited : 1..2]
OtherEntry == [label |-> <<2>>, path |-> <<4, 2>>, tree_name |-> <<>>, visit_count |-> 1,
               last_visited |-> 1]
NoSearch == [db |-> <<>>, query |-> <<>>, limit |-> 0, results |-> <<>>]

InitSearch == sLast = NoSearch

\* search_history(query, limit).
SearchHistory ==
    /\ sLast = NoSearch
    /\ \E e \in SearchEntries : \E query \in Strings(MaxQueryLen) : \E limit \in 1..2 :
         sLast' = [db |-> <<e, OtherEntry>>, query |-> query, limit |-> limit,
                   results |-> search(<<e, OtherEntry>>, query, limit)]

SearchDone ==
    /\ sLast # NoSearch
    /\ sLast' = NoSearch

NextSearch == SearchHistory \/ SearchDone

(***************************************************************************)
(* Cache replay (worker/mod.rs: json_to_ndb_filter, query_ndb_cache)       *)
(***************************************************************************)
NumEventIds == 2
NumKinds == 2
NumSubIds == 2
\* An event of the cache: id, kind and the value of its "e" tag (0: no tag).
NdbEvents == [id : 1..NumEventIds, kind : 1..NumKinds, e : 0..1]
\* A JSON filter: "ids", "kinds" and "#e", each absent (has_... FALSE) or a
\* list of values.  "authors" converts as "ids" does, "since", "until" and
\* "limit" as "kinds"; they are left out.
JsonFilters ==
    [has_ids : BOOLEAN, ids : SUBSET (1..NumEventIds), has_kinds : BOOLEAN,
     kinds : SUBSET (1..NumKinds), has_e : BOOLEAN, e : SUBSET {1}]
\* The filters a frontend sends: an absent key has no values.
WellFormed(f) ==
    /\ ~f.has_ids => f.ids = {}
    /\ ~f.has_kinds => f.kinds = {}
    /\ ~f.has_e => f.e = {}
NoReplay == [sub_id |-> 0, filters |-> <<>>, emitted |-> <<>>]

\* json_to_ndb_filter: ids and kinds are copied when the list is not empty;
\* no other key of the JSON filter is read.
json_to_ndb_filter(filter_json) ==
    [has_ids |-> filter_json.has_ids /\ filter_json.ids # {}, ids |-> filter_json.ids,
     has_kinds |-> filter_json.has_kinds /\ filter_json.kinds # {},
     kinds |-> filter_json.kinds, has_e |-> FALSE, e |-> {}]

\* Whether an event matches a filter (of nostrdb, or of the subscription):
\* every constraint present holds.
FilterMatches(f, ev) ==
    /\ f.has_ids => ev.id \in f.ids
    /\ f.has_kinds => ev.kind \in f.kinds
    /\ f.has_e => ev.e \in f.e

\* The events of a set in the order of their ids.
InIdOrder(evs) ==
    LET ids == {ev.id : ev \in evs}
        Nth(n) == CHOOSE ev \in evs : Cardinality({i \in ids : i < ev.id}) = n - 1
    IN  [n \in 1..Cardinality(ids) |-> Nth(n)]

\* query_ndb_cache: per filter, the notes of the listed ids (when "ids" is
\* a non-empty list) or the result of ndb.query with the converted filter,
\* each emitted as WorkerResponse::Event under sub_id.
RECURSIVE query_ndb_cache(_, _, _)
query_ndb_cache(ndb, filters_json, sub_id) ==
    IF filters_json = <<>> THEN <<>>
    ELSE LET filter_json == Head(filters_json)
             has_ids == filter_json.has_ids /\ filter_json.ids # {}
             found == IF has_ids THEN {ev \in ndb : ev.id \in filter_json.ids}
                      ELSE {ev \in ndb : FilterMatches(json_to_ndb_filter(filter_json), ev)}
         IN  [n \in 1..Cardinality(found) |->
                 [sub_id |-> sub_id, event |-> InIdOrder(found)[n]]]
             \o query_ndb_cache(ndb, Tail(filters_json), sub_id)

InitNdb ==
    /\ ndbCache = {}
    /\ replay = NoReplay

\* A relay event is stored in nostrdb (one note per id).
NdbIngest(ev) ==
    /\ replay = NoReplay
    /\ \A old \in ndbCache : old.id # ev.id
    /\ ndbCache' = ndbCache \cup {ev}
    /\ UNCHANGED replay

\* WorkerRequest::Subscribe: the cache is queried with the filters.
CacheReplay ==
    /\ replay = NoReplay
    /\ \E sub_id \in 1..NumSubIds :
       \E filters \in UNION {[1..n -> {f \in JsonFilters : WellFormed(f)}] : n \in 1..2} :
         replay' = [sub_id |-> sub_id, filters |-> filters,
                    emitted |-> query_ndb_cache(ndbCache, filters, sub_id)]
    /\ UNCHANGED ndbCache

ReplayDone ==
    /\ replay # NoReplay
    /\ replay' = NoReplay
    /\ UNCHANGED ndbCache

NextNdb ==
    \/ \E ev \in NdbEvents : NdbIngest(ev)
    \/ CacheReplay
    \/ ReplayDone

(***************************************************************************)
(* /ws/data relay (hashtree-cli server/ws_relay.rs)                        *)
(***************************************************************************)
NumWsClients == 3
NumRequesters == 2
NumReqIds == 2
NumWsHashes == 2
WsClients == 1..NumWsClients
ReqIds == 1..NumReqIds
WsHashes == 1..NumWsHashes
\* No entry of WsRelayState.pending under a key (peer_id, request_id), and a
\* client that has sent no request.
NoPending == [origin_id |-> 0, hash |-> 0, found |-> FALSE]
NoAsk == [id |-> 0, hash |-> 0]
\* The messages a client receives: "res" with hash and found, "bin" with the
\* request id and the payload (the block of hash h is h).
WsRes(id, hash, found) == [kind |-> "res", id |-> id, hash |-> hash, found |-> found]
WsBin(id, payload) == [kind |-> "bin", id |-> id, hash |-> payload, found |-> TRUE]

\* send_to_client: the message is queued for a client of the clients map and
\* dropped for any other.  What a client has been sent is a bag: the same
\* message sent twice is received twice.
SendTo(rcv, c, msgs) ==
    IF wsConn[c] = "open" THEN [rcv EXCEPT ![c] = @ (+) SetToBag(msgs)] ELSE rcv
\* pending.retain(|(_, id), p| !(id == request_id && p.origin_id == origin)).
DropRequest(pend, id, origin) ==
    [k \in DOMAIN pend |->
        IF k[2] = id /\ pend[k].origin_id = origin THEN NoPending ELSE pend[k]]
HasPending(pend, id, origin) ==
    \E k \in DOMAIN pend : k[2] = id /\ pend[k].origin_id = origin

\* Every client has connected (handle_socket has put it into the clients
\* map); the first NumRequesters of them send requests.
InitWs ==
    /\ wsStore = {}
    /\ wsConn = [c \in WsClients |-> "open"]
    /\ pending = [k \in WsClients \X ReqIds |-> NoPending]
    /\ asked = [c \in WsClients |-> NoAsk]
    /\ timer = [c \in WsClients |-> "none"]
    /\ inbox = [c \in WsClients |-> {}]
    /\ binq = [c \in WsClients |-> {}]
    /\ recv = [c \in WsClients |-> EmptyBag]

\* A block is uploaded to the server's store (in a run, that of hash 1).
WsStorePut(hash) ==
    /\ hash \notin wsStore
    /\ wsStore' = wsStore \cup {hash}
    /\ UNCHANGED <<wsConn, pending, asked, timer, inbox, binq, recv>>

\* handle_socket after the select: the client leaves the clients map and
\* the entries keyed by it as a peer leave pending.
WsDisconnect(c) ==
    /\ wsConn[c] = "open"
    /\ wsConn' = [wsConn EXCEPT ![c] = "closed"]
    /\ pending' = [k \in DOMAIN pending |-> IF k[1] = c THEN NoPending ELSE pending[k]]
    /\ inbox' = [inbox EXCEPT ![c] = {}]
    /\ binq' = [binq EXCEPT ![c] = {}]
    /\ UNCHANGED <<wsStore, asked, timer, recv>>

\* handle_request: a client's (one) request {type: "req", id, hash}.
HandleWsRequest(c, id, hash) ==
    LET peers == {p \in WsClients : wsConn[p] = "open" /\ p # c}
    IN  /\ wsConn[c] = "open"
        /\ asked[c] = NoAsk
        /\ asked' = [asked EXCEPT ![c] = [id |-> id, hash |-> hash]]
        /\ IF hash \in wsStore
             THEN /\ recv' = SendTo(recv, c, {WsRes(id, hash, TRUE), WsBin(id, hash)})
                  /\ UNCHANGED <<pending, inbox, timer>>
           ELSE IF peers = {}
             THEN /\ recv' = SendTo(recv, c, {WsRes(id, hash, FALSE)})
                  /\ UNCHANGED <<pending, inbox, timer>>
           ELSE /\ pending' = [k \in DOMAIN pending |->
                                 IF k[1] \in peers /\ k[2] = id
                                   THEN [origin_id |-> c, hash |-> hash, found |-> FALSE]
                                   ELSE pending[k]]
                /\ inbox' = [p \in WsClients |->
                               IF p \in peers THEN inbox[p] \cup {[id |-> id, hash |-> hash]}
                               ELSE inbox[p]]
                /\ timer' = [timer EXCEPT ![c] = "armed"]
                /\ UNCHANGED recv
        /\ UNCHANGED <<wsStore, wsConn, binq>>

\* The task spawned by handle_request, after its sleep of 1500 ms.
WsTimeout(c) ==
    LET id == asked[c].id
        still_pending == HasPending(pending, id, c)
        already_found == \E k \in DOMAIN pending :
                            k[2] = id /\ pending[k].origin_id = c /\ pending[k].found
    IN  /\ timer[c] = "armed"
        /\ timer' = [timer EXCEPT ![c] = "done"]
        /\ IF ~still_pending \/ already_found
             THEN UNCHANGED <<pending, recv>>
             ELSE /\ pending' = DropRequest(pending, id, c)
                  /\ recv' = SendTo(recv, c, {WsRes(id, asked[c].hash, FALSE)})
        /\ UNCHANGED <<wsStore, wsConn, asked, inbox, binq>>

\* handle_response: peer p answers a req it was forwarded with
\* {type: "res", id, hash, found}; a peer that has the block sends it next.
HandleWsResponse(p, req, found) ==
    LET key == <<p, req.id>>
        entry == pending[key]
        origin_id == entry.origin_id
    IN  /\ wsConn[p] = "open"
        /\ req \in inbox[p]
        /\ inbox' = [inbox EXCEPT ![p] = @ \ {req}]
        /\ binq' = IF found THEN [binq EXCEPT ![p] = @ \cup {req}] ELSE binq
        /\ IF entry = NoPending
             THEN UNCHANGED <<pending, recv>>
           ELSE IF entry.found /\ ~found
             THEN /\ pending' = [pending EXCEPT ![key] = NoPending]
                  /\ UNCHANGED recv
           ELSE IF found
             THEN /\ pending' = [k \in DOMAIN pending |->
                                   IF k[2] = req.id /\ pending[k].origin_id = origin_id
                                     THEN [pending[k] EXCEPT !.found = TRUE]
                                     ELSE pending[k]]
                  /\ recv' = SendTo(recv, origin_id, {WsRes(req.id, entry.hash, TRUE)})
           ELSE /\ pending' = [pending EXCEPT ![key] = NoPending]
                /\ recv' = IF HasPending(pending', req.id, origin_id) THEN recv
                           ELSE SendTo(recv, origin_id, {WsRes(req.id, entry.hash, FALSE)})
        /\ UNCHANGED <<wsStore, wsConn, asked, timer>>

\* handle_binary: peer p sends the block of a req it answered with found,
\* prefixed with the request id.
HandleWsBinary(p, req) ==
    LET entry == pending[<<p, req.id>>]
    IN  /\ wsConn[p] = "open"
        /\ req \in binq[p]
        /\ binq' = [binq EXCEPT ![p] = @ \ {req}]
        /\ IF entry = NoPending
             THEN UNCHANGED <<pending, recv>>
             ELSE /\ recv' = SendTo(recv, entry.origin_id, {WsBin(req.id, req.hash)})
                  /\ pending' = DropRequest(pending, req.id, entry.origin_id)
        /\ UNCHANGED <<wsStore, wsConn, asked, timer, inbox>>

NextWs ==
    \/ \E hash \in {1} : WsStorePut(hash)
    \/ \E c \in WsClients : WsDisconnect(c)
    \/ \E c \in 1..NumRequesters, id \in ReqIds, hash \in WsHashes : HandleWsRequest(c, id, hash)
    \/ \E c \in WsClients : WsTimeout(c)
    \/ \E p \in WsClients : \E req \in inbox[p] : \E found \in BOOLEAN :
         HandleWsResponse(p, req, found)
    \/ \E p \in WsClients : \E req \in binq[p] : HandleWsBinary(p, req)

(***************************************************************************)
(* Lazy start of the Nostr client (worker/nostr.rs: ensure_client,         *)
(* start_event_listener)                                                   *)
(***************************************************************************)
\* The worker_message handlers that call ensure_client, one call each.
NumCallers == 3
Callers == 1..NumCallers

InitEnsure ==
    /\ ensPc = [c \in Callers |-> "idle"]
    /\ ensClient = [c \in Callers |-> 0]
    /\ storedClient = 0
    /\ clientsCreated = 0
    /\ listeners = {}
    /\ retryLoops = {}
    /\ shutdown_tx = 0

\* ensure_client, first block: return if self.client holds a client.
EnsureCheck(c) ==
    /\ ensPc[c] = "idle"
    /\ ensPc' = [ensPc EXCEPT ![c] = IF storedClient # 0 THEN "done" ELSE "init"]
    /\ UNCHANGED <<ensClient, storedClient, clientsCreated, listeners, retryLoops, shutdown_tx>>

\* ensure_client up to the end of its add_relay awaits: Client::new.
EnsureCreate(c) ==
    /\ ensPc[c] = "init"
    /\ clientsCreated' = clientsCreated + 1
    /\ ensClient' = [ensClient EXCEPT ![c] = clientsCreated + 1]
    /\ ensPc' = [ensPc EXCEPT ![c] = "start"]
    /\ UNCHANGED <<storedClient, listeners, retryLoops, shutdown_tx>>

\* ensure_client, the rest: start_event_listener replaces shutdown_tx and
\* spawns the retry loop and the listener of the new client, then the client
\* is stored in self.client.
EnsureStart(c) ==
    /\ ensPc[c] = "start"
    /\ shutdown_tx' = ensClient[c]
    /\ retryLoops' = retryLoops \cup {ensClient[c]}
    /\ listeners' = listeners \cup {ensClient[c]}
    /\ storedClient' = ensClient[c]
    /\ ensPc' = [ensPc EXCEPT ![c] = "done"]
    /\ UNCHANGED <<ensClient, clientsCreated>>

\* A listener whose sender was dropped (shutdown_tx was replaced): rx.recv()
\* yields None and the loop breaks.  The retry loop has no exit.
ListenerStops(l) ==
    /\ l \in listeners
    /\ shutdown_tx # l
    /\ listeners' = listeners \ {l}
    /\ UNCHANGED <<ensPc, ensClient, storedClient, clientsCreated, retryLoops, shutdown_tx>>

NextEnsure ==
    \/ \E c \in Callers : EnsureCheck(c)
    \/ \E c \in Callers : EnsureCreate(c)
    \/ \E c \in Callers : EnsureStart(c)
    \/ \E l \in 1..NumCallers : ListenerStops(l)

(***************************************************************************)
(* NIP-07 signEvent (nip07.rs: handle_nip07_request; htree.rs: the /nip07  *)
(* route)                                                                  *)
(***************************************************************************)
NoSignResp == [origin |-> 0, perms |-> FALSE, status |-> 0, result |-> "none", error |-> ""]
Nip07Response(o, p, status, result, error) ==
    [origin |-> o, perms |-> p, status |-> status, result |-> result, error |-> error]

\* Faulty variant of sign_event: the default of getPublicKey, unwrap_or(true).
sign_event_unset_allowed(c, o, perms, has_event, has_keys, has_kind) ==
    IF perms /\ is_granted(c, o, "SignEvent") = "denied"
      THEN Nip07Response(o, perms, 200, "none", "Permission denied")
    ELSE IF ~has_event THEN Nip07Response(o, perms, 200, "none", "Missing event parameter")
    ELSE IF ~has_keys THEN Nip07Response(o, perms, 200, "none", "No signing keys available")
    ELSE IF ~has_kind THEN Nip07Response(o, perms, 200, "none", "Missing kind")
    ELSE Nip07Response(o, perms, 200, "signed", "")

\* handle_nip07_request, method "signEvent": with a permission store,
\* is_granted(origin, SignEvent).unwrap_or(false) decides; then the event
\* parameter, the signing keys and the kind are needed.
sign_event(c, o, perms, has_event, has_keys, has_kind) ==
    IF perms /\ is_granted(c, o, "SignEvent") # "granted"
      THEN Nip07Response(o, perms, 200, "none", "Permission denied")
    ELSE IF ~has_event THEN Nip07Response(o, perms, 200, "none", "Missing event parameter")
    ELSE IF ~has_keys THEN Nip07Response(o, perms, 200, "none", "No signing keys available")
    ELSE IF ~has_kind THEN Nip07Response(o, perms, 200, "none", "Missing kind")
    ELSE Nip07Response(o, perms, 200, "signed", "")

InitSign ==
    /\ signCache = [o \in Origins |-> NoPerms]
    /\ signResp = NoSignResp

\* PermissionStore::grant and deny, and revoke_all, between requests (a
\* decision on GetPublicKey is never looked up).
SignDecide(o, cap, decision) ==
    /\ signResp = NoSignResp
    /\ signCache' = InsertDecision(signCache, o, cap, decision)
    /\ UNCHANGED signResp

SignRevokeAll(o) ==
    /\ signResp = NoSignResp
    /\ signCache' = revoke_all(signCache, o)
    /\ UNCHANGED signResp

\* POST /nip07 {method: "signEvent", origin} (token_ok: the session token
\* validates for the origin; the route passes the permission store), or the
\* nip07_request command, which passes the store if Nip07State is managed.
SignEventRequest ==
    /\ signResp = NoSignResp
    /\ \E o \in Origins : \E http, token_ok, perms, has_event, has_keys, has_kind \in BOOLEAN :
         signResp' =
            IF http /\ ~token_ok
              THEN Nip07Response(o, TRUE, 403, "none", "Invalid session token")
            ELSE sign_event(signCache, o, http \/ perms, has_event, has_keys, has_kind)
    /\ UNCHANGED signCache

SignDone ==
    /\ signResp # NoSignResp
    /\ signResp' = NoSignResp
    /\ UNCHANGED signCache

NextSign ==
    \/ \E o \in Origins, cap \in Caps \ {"GetPublicKey"}, decision \in {"granted", "denied"} :
         SignDecide(o, cap, decision)
    \/ \E o \in Origins : SignRevokeAll(o)
    \/ SignEventRequest
    \/ SignDone

(***************************************************************************)
(* resolve_tree beside cache_tree_root (htree.rs): the awaits of           *)
(* resolve_tree lie between its read of the root cache and its write       *)
(***************************************************************************)
\* Bound: resolve_tree calls in progress at once (one per /htree request).
NumResolvers == 2
Resolvers == 1..NumResolvers
NoResolve == [pc |-> "idle", tree |-> 0, seen |-> NoEntry]

InitResolve ==
    /\ rsCache = [t \in Trees |-> NoEntry]
    /\ rsTask = [r \in Resolvers |-> NoResolve]
    /\ rsWriter = [t \in Trees |-> "none"]

\* The cache_tree_root command: cache_root takes the write lock and puts.
ResolveCacheTreeRoot(t, cid) ==
    /\ rsCache' = cache_root(rsCache, t, cid)
    /\ rsWriter' = [rsWriter EXCEPT ![t] = "frontend"]
    /\ UNCHANGED rsTask

\* resolve_tree up to resolver.resolve: the cached entry is cloned under the
\* read lock; a keyed entry, or a key-less one whose root block (data, what
\* store.get answers) is a tree node, is returned; otherwise the call goes
\* on to the relays holding no lock.
ResolveCheck(r, t, data) ==
    /\ rsTask[r].pc = "idle"
    /\ LET entry == rsCache[t] IN
       /\ ~(entry # NoEntry /\ CacheHit(entry, data))
       /\ rsTask' = [rsTask EXCEPT ![r] = [pc |-> "resolving", tree |-> t, seen |-> entry]]
    /\ UNCHANGED <<rsCache, rsWriter>>

\* resolve_tree from the resolver's answer on: a found CID is put under the
\* write lock, without another look at the entry; timeout, error and
\* not-found return the error.
ResolveAnswer(r, kind, res) ==
    /\ rsTask[r].pc = "resolving"
    /\ IF kind = "found"
       THEN /\ rsCache' = cache_root(rsCache, rsTask[r].tree, res)
            /\ rsWriter' = [rsWriter EXCEPT ![rsTask[r].tree] = "relay"]
       ELSE UNCHANGED <<rsCache, rsWriter>>
    /\ rsTask' = [rsTask EXCEPT ![r] = NoResolve]

NextResolve ==
    \/ \E t \in Trees, cid \in Cids : ResolveCacheTreeRoot(t, cid)
    \/ \E r \in Resolvers, t \in Trees, data \in Blocks \cup {Missing} : ResolveCheck(r, t, data)
    \/ \E r \in Resolvers, kind \in ResolveKinds : \E res \in Resolved(kind) : ResolveAnswer(r, kind, res)

(***************************************************************************)
(* WebRTCManager (worker/webrtc.rs): init, its background tasks, shutdown  *)
(***************************************************************************)
\* Bounds: concurrent callers of init, and init calls that get past the
\* "already initialized" check in a run (each builds one SignalingManager).
NumInitCallers == 2
MaxManagers == 3
InitCallers == 1..NumInitCallers
TaskKinds == {"classifier", "recv", "hello"}
NoInit == [pc |-> "idle", gen |-> 0]

InitWebrtc ==
    /\ transport = 0
    /\ signaling = 0
    /\ classifier_tx = 0
    /\ running = FALSE
    /\ initPc = [i \in InitCallers |-> NoInit]
    /\ tasks = {}
    /\ managersBuilt = 0

\* init up to transport.connect: a call that finds a signaling manager
\* returns Ok; any other builds its own transport.
WrInitCheck(i) ==
    /\ initPc[i].pc = "idle"
    /\ managersBuilt < MaxManagers
    /\ IF signaling # 0
         THEN UNCHANGED <<initPc, managersBuilt>>
         ELSE /\ managersBuilt' = managersBuilt + 1
              /\ initPc' = [initPc EXCEPT ![i] = [pc |-> "connect", gen |-> managersBuilt + 1]]
    /\ UNCHANGED <<transport, signaling, classifier_tx, running, tasks>>

\* init from the answer of transport.connect to running = true: a failed
\* connect returns Err; otherwise transport, classifier_tx and signaling
\* are stored (replacing what is there) and the running flag is set.
WrInitConnect(i, ok) ==
    /\ initPc[i].pc = "connect"
    /\ IF ok
         THEN /\ transport' = initPc[i].gen
              /\ classifier_tx' = initPc[i].gen
              /\ signaling' = initPc[i].gen
              /\ running' = TRUE
              /\ initPc' = [initPc EXCEPT ![i].pc = "spawn"]
         ELSE /\ initPc' = [initPc EXCEPT ![i] = NoInit]
              /\ UNCHANGED <<transport, classifier_tx, signaling, running>>
    /\ UNCHANGED <<tasks, managersBuilt>>

\* start_classifier_handler and start_recv_loop: one task each is spawned.
WrInitSpawn(i) ==
    /\ initPc[i].pc = "spawn"
    /\ tasks' = tasks \cup {[kind |-> "classifier", gen |-> initPc[i].gen],
                            [kind |-> "recv", gen |-> initPc[i].gen]}
    /\ initPc' = [initPc EXCEPT ![i].pc = "hello"]
    /\ UNCHANGED <<transport, signaling, classifier_tx, running, managersBuilt>>

\* The initial hello and what follows: when send_hello fails init returns
\* Err there and then; when it succeeds start_hello_timer spawns the timer.
WrInitHello(i, ok) ==
    /\ initPc[i].pc = "hello"
    /\ tasks' = IF ok THEN tasks \cup {[kind |-> "hello", gen |-> initPc[i].gen]} ELSE tasks
    /\ initPc' = [initPc EXCEPT ![i] = NoInit]
    /\ UNCHANGED <<transport, signaling, classifier_tx, running, managersBuilt>>

\* shutdown: the flag is cleared, transport, signaling and classifier_tx
\* are taken.  No task is awaited or aborted.
WrShutdown ==
    /\ running \/ signaling # 0
    /\ running' = FALSE
    /\ transport' = 0
    /\ signaling' = 0
    /\ classifier_tx' = 0
    /\ UNCHANGED <<initPc, tasks, managersBuilt>>

\* A background task ends.  The recv loop and the hello timer break when
\* they read running = false at the top of a round (every 50 ms and every
\* 30 s); the classifier handler ends when its channel is closed, that is
\* when the sender in classifier_tx and the SignalingManager holding the
\* other one are gone (init keeps its SignalingManager until it returns).
WrTaskExit(t) ==
    /\ t \in tasks
    /\ IF t.kind = "classifier"
         THEN /\ classifier_tx # t.gen
              /\ signaling # t.gen
              /\ \A i \in InitCallers : initPc[i].gen # t.gen
         ELSE ~running
    /\ tasks' = tasks \ {t}
    /\ UNCHANGED <<transport, signaling, classifier_tx, running, initPc, managersBuilt>>

NextWebrtc ==
    \/ \E i \in InitCallers : WrInitCheck(i)
    \/ \E i \in InitCallers, ok \in BOOLEAN : WrInitConnect(i, ok)
    \/ \E i \in InitCallers : WrInitSpawn(i)
    \/ \E i \in InitCallers, ok \in BOOLEAN : WrInitHello(i, ok)
    \/ WrShutdown
    \/ \E t \in tasks : WrTaskExit(t)

(***************************************************************************)
(* BlossomManager (worker/blossom.rs): set_keys and set_servers            *)
(***************************************************************************)
\* Bounds: the (read, write) server lists a caller can name, and the keys.
NumServerLists == 2
NumBlossomKeys == 2
ServerLists == 1..NumServerLists
BlossomKeys == 1..NumBlossomKeys
\* DEFAULT_READ_SERVERS with DEFAULT_WRITE_SERVERS.
DefaultServers == 0
NoBlossom == [servers |-> DefaultServers, keys |-> 0]
NoCall == [pc |-> "idle", arg |-> 0, got |-> 0]

InitBlossom ==
    /\ blossomClient = NoBlossom
    /\ blossomKeys = 0
    /\ pending_servers = 0
    /\ setKeys = NoCall
    /\ setServers = NoCall
    /\ requested = 0

\* set_keys, its first statement: pending_servers is taken (and left None),
\* the defaults stand in when there is none.
SetKeysTake(keys) ==
    /\ setKeys.pc = "idle"
    /\ setKeys' = [pc |-> "store", arg |-> keys,
                   got |-> IF pending_servers # 0 THEN pending_servers ELSE DefaultServers]
    /\ pending_servers' = 0
    /\ UNCHANGED <<blossomClient, blossomKeys, setServers, requested>>

\* set_keys, the rest: a new client with those servers replaces the old
\* one, and the keys are stored.
SetKeysStore ==
    /\ setKeys.pc = "store"
    /\ blossomClient' = [servers |-> setKeys.got, keys |-> setKeys.arg]
    /\ blossomKeys' = setKeys.arg
    /\ setKeys' = NoCall
    /\ UNCHANGED <<pending_servers, setServers, requested>>

\* set_servers, its first statement: the keys are read.
SetServersRead(servers) ==
    /\ setServers.pc = "idle"
    /\ setServers' = [pc |-> "store", arg |-> servers, got |-> blossomKeys]
    /\ requested' = servers
    /\ UNCHANGED <<blossomClient, blossomKeys, pending_servers, setKeys>>

\* set_servers, the rest: with keys a new client replaces the old one,
\* without them the servers are queued.
SetServersStore ==
    /\ setServers.pc = "store"
    /\ IF setServers.got # 0
         THEN /\ blossomClient' = [servers |-> setServers.arg, keys |-> setServers.got]
              /\ UNCHANGED pending_servers
         ELSE /\ pending_servers' = setServers.arg
              /\ UNCHANGED blossomClient
    /\ setServers' = NoCall
    /\ UNCHANGED <<blossomKeys, setKeys, requested>>

NextBlossom ==
    \/ \E keys \in BlossomKeys : SetKeysTake(keys)
    \/ SetKeysStore
    \/ \E servers \in ServerLists : SetServersRead(servers)
    \/ SetServersStore

(***************************************************************************)
(* Locks and await points of the handlers that use the Nostr subscription  *)
(* registry, the root cache and the peer pool                              *)
(***************************************************************************)
\* What a handler does with locks, in program order: it takes a read or a
\* write guard, awaits something with the guards it has, or drops a guard.
Rd(l) == [op |-> "read", on |-> l]
Wr(l) == [op |-> "write", on |-> l]
Drop(l) == [op |-> "drop", on |-> l]
Await(what) == [op |-> "await", on |-> what]

\* WebRTCManager::get_peer_stats: the guard of signaling lives to the end of
\* the function; that of follows is a temporary of the if condition.
GetPeerStatsOps ==
    <<Rd("signaling"), Await("peer_ids"), Rd("follows"), Drop("follows"),
      Await("get_channel"), Drop("signaling")>>
\* WebRTCManager::send_hello: the hello is published to the relays under
\* the guard of signaling.
SendHelloOps == <<Rd("signaling"), Await("network"), Drop("signaling")>>
\* WebRTCManager::shutdown, its signaling.write().await.take().
ShutdownOps == <<Wr("signaling"), Drop("signaling")>>
\* NostrManager::subscribe: the client is cloned out of its guard, the
\* registry is written after the relays have answered.
SubscribeOps ==
    <<Rd("client"), Drop("client"), Await("network"),
      Wr("subscriptions"), Drop("subscriptions")>>
\* HtreeState::resolve_tree on a cache miss.
ResolveTreeOps ==
    <<Rd("root_cache"), Drop("root_cache"), Await("store"), Await("network"),
      Wr("root_cache"), Drop("root_cache")>>
\* RelayProxyState::ensure_client, first call: relays are added and
\* connected under the write guard of the proxy's client.
EnsureClientOps ==
    <<Wr("proxy_client"), Await("network"), Await("network"), Drop("proxy_client")>>

Handlers == {"get_peer_stats", "send_hello", "shutdown", "subscribe", "resolve_tree",
             "ensure_client"}
Ops(h) ==
    CASE h = "get_peer_stats" -> GetPeerStatsOps
      [] h = "send_hello" -> SendHelloOps
      [] h = "shutdown" -> ShutdownOps
      [] h = "subscribe" -> SubscribeOps
      [] h = "resolve_tree" -> ResolveTreeOps
      [] OTHER -> EnsureClientOps

\* The guards handler h has after its first n operations, by mode.
Guards(h, n, mode) ==
    {l \in {Ops(h)[i].on : i \in 1..n} :
        \E i \in 1..n :
            /\ Ops(h)[i] = [op |-> mode, on |-> l]
            /\ \A j \in (i + 1)..n : Ops(h)[j] # Drop(l)}
Held(h, n) == Guards(h, n, "read") \cup Guards(h, n, "write")
\* h has executed an await and nothing after it: it is suspended there.
Suspended(h) == lockAt[h] > 0 /\ Ops(h)[lockAt[h]].op = "await"

InitLocks == lockAt = [h \in Handlers |-> 0]

\* Handler h runs its next operation; it starts over when it has returned.
\* RwLock: a read guard waits for a writer, a write guard for every holder.
LockStep(h) ==
    LET n == lockAt[h]
        next == Ops(h)[n + 1]
        others == Handlers \ {h}
    IN  IF n = Len(Ops(h))
          THEN lockAt' = [lockAt EXCEPT ![h] = 0]
          ELSE /\ next.op = "read" =>
                     \A o \in others : next.on \notin Guards(o, lockAt[o], "write")
               /\ next.op = "write" =>
                     \A o \in others : next.on \notin Held(o, lockAt[o])
               /\ lockAt' = [lockAt EXCEPT ![h] = n + 1]

NextLocks == \E h \in Handlers : LockStep(h)

(***************************************************************************)
(* Specifications                                                          *)
(***************************************************************************)
Init == InitStore /\ InitRelay /\ InitToken /\ InitPerm /\ InitNostr /\ InitChan /\ InitRange /\ InitGateway /\ InitWalk /\ InitTree /\ InitServer /\ InitWebview /\ InitHistory /\ InitSearch /\ InitNdb /\ InitWs /\ InitEnsure /\ InitSign /\ InitResolve /\ InitWebrtc /\ InitBlossom /\ InitLocks

SpecStore == Init /\ [][NextStore /\ UNCHANGED <<relayVars, tokenVars, permVars, nostrVars, chanVars, rangeVars, gwVars, walkVars, treeVars, serverVars, webviewVars, histVars, searchVars, ndbVars, wsVars, ensVars, signVars, resolveVars, webrtcVars, blossomVars, lockVars>>]_vars
SpecRoot == Init /\ [][NextRoot /\ UNCHANGED <<relayVars, tokenVars, permVars, nostrVars, chanVars, rangeVars, gwVars, walkVars, treeVars, serverVars, webviewVars, histVars, searchVars, ndbVars, wsVars, ensVars, signVars, resolveVars, webrtcVars, blossomVars, lockVars>>]_vars
SpecRelay == Init /\ [][NextRelay /\ UNCHANGED <<storeVars, tokenVars, permVars, nostrVars, chanVars, rangeVars, gwVars, walkVars, treeVars, serverVars, webviewVars, histVars, searchVars, ndbVars, wsVars, ensVars, signVars, resolveVars, webrtcVars, blossomVars, lockVars>>]_vars
SpecToken == Init /\ [][NextToken /\ UNCHANGED <<storeVars, relayVars, permVars, nostrVars, chanVars, rangeVars, gwVars, walkVars, treeVars, serverVars, webviewVars, histVars, searchVars, ndbVars, wsVars, ensVars, signVars, resolveVars, webrtcVars, blossomVars, lockVars>>]_vars
SpecPerm == Init /\ [][NextPerm /\ UNCHANGED <<storeVars, relayVars, tokenVars, nostrVars, chanVars, rangeVars, gwVars, walkVars, treeVars, serverVars, webviewVars, histVars, searchVars, ndbVars, wsVars, ensVars, signVars, resolveVars, webrtcVars, blossomVars, lockVars>>]_vars
SpecNostr == Init /\ [][NextNostr /\ UNCHANGED <<storeVars, relayVars, tokenVars, permVars, chanVars, rangeVars, gwVars, walkVars, treeVars, serverVars, webviewVars, histVars, searchVars, ndbVars, wsVars, ensVars, signVars, resolveVars, webrtcVars, blossomVars, lockVars>>]_vars
SpecChan == Init /\ [][NextChan /\ UNCHANGED <<storeVars, relayVars, tokenVars, permVars, nostrVars, rangeVars, gwVars, walkVars, treeVars, serverVars, webviewVars, histVars, searchVars, ndbVars, wsVars, ensVars, signVars, resolveVars, webrtcVars, blossomVars, lockVars>>]_vars
SpecRange == Init /\ [][NextRange /\ UNCHANGED <<storeVars, relayVars, tokenVars, permVars, nostrVars, chanVars, gwVars, walkVars, treeVars, serverVars, webviewVars, histVars, searchVars, ndbVars, wsVars, ensVars, signVars, resolveVars, webrtcVars, blossomVars, lockVars>>]_vars
SpecGateway == Init /\ [][NextGateway /\ UNCHANGED <<storeVars, relayVars, tokenVars, permVars, nostrVars, chanVars, rangeVars, walkVars, treeVars, serverVars, webviewVars, histVars, searchVars, ndbVars, wsVars, ensVars, signVars, resolveVars, webrtcVars, blossomVars, lockVars>>]_vars
SpecWalk == Init /\ [][NextWalk /\ UNCHANGED <<storeVars, relayVars, tokenVars, permVars, nostrVars, chanVars, rangeVars, gwVars, treeVars, serverVars, webviewVars, histVars, searchVars, ndbVars, wsVars, ensVars, signVars, resolveVars, webrtcVars, blossomVars, lockVars>>]_vars
SpecTree == Init /\ [][NextTree /\ UNCHANGED <<storeVars, relayVars, tokenVars, permVars, nostrVars, chanVars, rangeVars, gwVars, walkVars, serverVars, webviewVars, histVars, searchVars, ndbVars, wsVars, ensVars, signVars, resolveVars, webrtcVars, blossomVars, lockVars>>]_vars
SpecServer == Init /\ [][NextServer /\ UNCHANGED <<storeVars, relayVars, tokenVars, permVars, nostrVars, chanVars, rangeVars, gwVars, walkVars, treeVars, webviewVars, histVars, searchVars, ndbVars, wsVars, ensVars, signVars, resolveVars, webrtcVars, blossomVars, lockVars>>]_vars
SpecWebview == Init /\ [][NextWebview /\ UNCHANGED <<storeVars, relayVars, tokenVars, permVars, nostrVars, chanVars, rangeVars, gwVars, walkVars, treeVars, serverVars, histVars, searchVars, ndbVars, wsVars, ensVars, signVars, resolveVars, webrtcVars, blossomVars, lockVars>>]_vars
SpecHistory == Init /\ [][NextHistory /\ UNCHANGED <<storeVars, relayVars, tokenVars, permVars, nostrVars, chanVars, rangeVars, gwVars, walkVars, treeVars, serverVars, webviewVars, searchVars, ndbVars, wsVars, ensVars, signVars, resolveVars, webrtcVars, blossomVars, lockVars>>]_vars
SpecSearch == Init /\ [][NextSearch /\ UNCHANGED <<storeVars, relayVars, tokenVars, permVars, nostrVars, chanVars, rangeVars, gwVars, walkVars, treeVars, serverVars, webviewVars, histVars, ndbVars, wsVars, ensVars, signVars, resolveVars, webrtcVars, blossomVars, lockVars>>]_vars
SpecNdb == Init /\ [][NextNdb /\ UNCHANGED <<storeVars, relayVars, tokenVars, permVars, nostrVars, chanVars, rangeVars, gwVars, walkVars, treeVars, serverVars, webviewVars, histVars, searchVars, wsVars, ensVars, signVars, resolveVars, webrtcVars, blossomVars, lockVars>>]_vars
SpecWs == Init /\ [][NextWs /\ UNCHANGED <<storeVars, relayVars, tokenVars, permVars, nostrVars, chanVars, rangeVars, gwVars, walkVars, treeVars, serverVars, webviewVars, histVars, searchVars, ndbVars, ensVars, signVars, resolveVars, webrtcVars, blossomVars, lockVars>>]_vars
SpecEnsure == Init /\ [][NextEnsure /\ UNCHANGED <<storeVars, relayVars, tokenVars, permVars, nostrVars, chanVars, rangeVars, gwVars, walkVars, treeVars, serverVars, webviewVars, histVars, searchVars, ndbVars, wsVars, signVars, resolveVars, webrtcVars, blossomVars, lockVars>>]_vars
SpecSign == Init /\ [][NextSign /\ UNCHANGED <<storeVars, relayVars, tokenVars, permVars, nostrVars, chanVars, rangeVars, gwVars, walkVars, treeVars, serverVars, webviewVars, histVars, searchVars, ndbVars, wsVars, ensVars, resolveVars, webrtcVars, blossomVars, lockVars>>]_vars
SpecResolve == Init /\ [][NextResolve /\ UNCHANGED <<storeVars, relayVars, tokenVars, permVars, nostrVars, chanVars, rangeVars, gwVars, walkVars, treeVars, serverVars, webviewVars, histVars, searchVars, ndbVars, wsVars, ensVars, signVars, webrtcVars, blossomVars, lockVars>>]_vars
SpecWebrtc == Init /\ [][NextWebrtc /\ UNCHANGED <<storeVars, relayVars, tokenVars, permVars, nostrVars, chanVars, rangeVars, gwVars, walkVars, treeVars, serverVars, webviewVars, histVars, searchVars, ndbVars, wsVars, ensVars, signVars, resolveVars, blossomVars, lockVars>>]_vars
SpecBlossom == Init /\ [][NextBlossom /\ UNCHANGED <<storeVars, relayVars, tokenVars, permVars, nostrVars, chanVars, rangeVars, gwVars, walkVars, treeVars, serverVars, webviewVars, histVars, searchVars, ndbVars, wsVars, ensVars, signVars, resolveVars, webrtcVars, lockVars>>]_vars
SpecLocks == Init /\ [][NextLocks /\ UNCHANGED <<storeVars, relayVars, tokenVars, permVars, nostrVars, chanVars, rangeVars, gwVars, walkVars, treeVars, serverVars, webviewVars, histVars, searchVars, ndbVars, wsVars, ensVars, signVars, resolveVars, webrtcVars, blossomVars>>]_vars

\* The worker's tasks keep running: the retry task loops for ever, and a
\* Subscribe handler in flight goes on to its next await.
NostrFairness ==
    \A s \in SubIds :
        /\ WF_vars(RetryIssue(s) /\ UNCHANGED <<storeVars, relayVars, tokenVars, permVars, chanVars, rangeVars, gwVars, walkVars, treeVars, serverVars, webviewVars, histVars, searchVars, ndbVars, wsVars, ensVars, signVars, resolveVars, webrtcVars, blossomVars, lockVars>>)
        /\ WF_vars((\E ok \in RetryResults(retryTask[s].accepted) : RetryRecord(s, ok))
                       /\ UNCHANGED <<storeVars, relayVars, tokenVars, permVars, chanVars, rangeVars, gwVars, walkVars, treeVars, serverVars, webviewVars, histVars, searchVars, ndbVars, wsVars, ensVars, signVars, resolveVars, webrtcVars, blossomVars, lockVars>>)
        /\ WF_vars(ReplayEmit(s) /\ UNCHANGED <<storeVars, relayVars, tokenVars, permVars, chanVars, rangeVars, gwVars, walkVars, treeVars, serverVars, webviewVars, histVars, searchVars, ndbVars, wsVars, ensVars, signVars, resolveVars, webrtcVars, blossomVars, lockVars>>)
        /\ WF_vars(IssueSubscribe(s) /\ UNCHANGED <<storeVars, relayVars, tokenVars, permVars, chanVars, rangeVars, gwVars, walkVars, treeVars, serverVars, webviewVars, histVars, searchVars, ndbVars, wsVars, ensVars, signVars, resolveVars, webrtcVars, blossomVars, lockVars>>)
        /\ WF_vars(InsertSubscribe(s) /\ UNCHANGED <<storeVars, relayVars, tokenVars, permVars, chanVars, rangeVars, gwVars, walkVars, treeVars, serverVars, webviewVars, histVars, searchVars, ndbVars, wsVars, ensVars, signVars, resolveVars, webrtcVars, blossomVars, lockVars>>)

\* The registry under fair scheduling.  The listener task writes neither the
\* registry nor anything a handler of the registry is guarded by, and is
\* left out.
SpecNostrFair ==
    /\ Init
    /\ [][NextRegistry /\ UNCHANGED <<storeVars, relayVars, tokenVars, permVars, chanVars, rangeVars, gwVars, walkVars, treeVars, serverVars, webviewVars, histVars, searchVars, ndbVars, wsVars, ensVars, signVars, resolveVars, webrtcVars, blossomVars, lockVars>>]_vars
    /\ NostrFairness

(***************************************************************************)
(* Properties                                                              *)
(***************************************************************************)
\* C1: a root-cache entry is served for an encrypted tree (the root block
\* behind the cached hash is ciphertext) only if the entry carries the key.
EncryptedCacheHitHasKey ==
    (served.source = "cache" /\ served.cachedBlock = "cipher") => served.cid.key # None

\* A keyed entry of an encrypted tree has been served from the cache.
EncryptedCacheHitSeen ==
    served.source = "cache" /\ served.cachedBlock = "cipher" /\ served.cid.key # None

\* C2: whenever Store.get(h) returns a block b, sha256(b) = h.
GetReturnsHashedBlock ==
    lastGet.data # Missing => Sha(lastGet.data) = lastGet.hash

\* C3: an EVENT or EOSE queued for a /relay client under sub id S was
\* delivered by the backend subscription the connection maps S to.
ForwardedOnlyUnderMappedSub ==
    \A c \in Conns : \A m \in wsOut[c] :
        m.type \in {"EVENT", "EOSE"} => m.from = m.mapped

\* C4: validate_token(origin, token) is true exactly when token was minted
\* for that origin and has been neither superseded nor cleared.
TokenValidOnlyForItsOrigin ==
    lastValidate # NoValidate =>
        (lastValidate.ok <=>
            /\ lastValidate.token \in Tokens
            /\ mintedFor[lastValidate.token] = lastValidate.origin
            /\ lastValidate.token \notin retired)

\* The current token of one origin has been presented for another and refused.
ForeignTokenRefused ==
    /\ lastValidate # NoValidate
    /\ ~lastValidate.ok
    /\ lastValidate.token \in Tokens
    /\ \E o \in Origins : o # lastValidate.origin /\ session_tokens[o] = lastValidate.token

\* C5: needs_prompt(origin, cap) holds exactly when no decision for
\* (origin, cap) was stored since the origin's last revoke_all and cap is
\* not GetPublicKey; the decisions of one origin do not count for another.
PromptIffUndecided ==
    \A o \in Origins, cap \in Caps :
        needs_prompt(cache, o, cap) <=> (<<o, cap>> \notin decided /\ cap # "GetPublicKey")

\* One origin has its SignEvent decision and is not prompted, while another
\* origin is still prompted for it.
DecisionIsPerOrigin ==
    \E o1, o2 \in Origins :
        /\ o1 # o2
        /\ <<o1, "SignEvent">> \in decided
        /\ ~needs_prompt(cache, o1, "SignEvent")
        /\ needs_prompt(cache, o2, "SignEvent")

\* C6: the subscriber sees exactly one EOSE per subscription: never a
\* second one, and one by the time the Subscribe request has been answered
\* (its entry is in the registry and no Subscribe is in flight).
ExactlyOneEose ==
    \A s \in SubIds :
        /\ obs[s].eose <= 1
        /\ (subscriptions[s].present /\ subTask[s].pc = "idle") => obs[s].eose = 1

\* C7: no cached replay event of a subscription is delivered after a live
\* event of it.
ReplayBeforeLive ==
    \A s \in SubIds : ~obs[s].cachedAfterLive

\* C8: if some relay eventually stays connected, a subscription that was
\* requested and not yet accepted by any relay is eventually accepted by
\* one, or closed.
PendingEventuallyIssued ==
    \A s \in SubIds :
        LET Unissued == \/ subTask[s].pc # "idle"
                        \/ (subscriptions[s].present /\ subscriptions[s].sent_to = {})
        IN (\E r \in Relays : <>[](r \in connected)) => (Unissued ~> ~Unissued)

\* A subscription that no relay had accepted was accepted on a retry.
AcceptedOnRetry ==
    \E s \in SubIds :
        /\ subscriptions[s].present
        /\ subscriptions[s].via = "retry"
        /\ subscriptions[s].sent_to # {}

\* C9: once an Unsubscribe request is answered the registry holds no entry
\* for the sub_id and nothing more is delivered under it.
UnsubscribeIsFinal ==
    \A s \in SubIds :
        obs[s].closed => (~subscriptions[s].present /\ ~obs[s].afterClose)

\* C10: when a /relay connection has ended, no backend subscription that
\* one of its REQs created is still alive.
DisconnectUnsubscribesAll ==
    \A c \in Conns : connState[c] = "closed" => created[c] \cap backend = {}

\* C11: at most ChannelCapacity messages are queued for a connection, and
\* the forwarder never waits on a full queue: it is dropped instead.
ForwardingBoundedAndNeverWaits ==
    /\ chanLen <= ChannelCapacity
    /\ ~waited

\* C12: every 206 response carries Content-Range start-end/total with
\* 0 <= start <= end < total, and its body is exactly the end-start+1 bytes
\* start..end of the file, whether the file is encrypted (keyed CID) or not.
PartialContentMatchesRange ==
    rangeResp.status = 206 =>
        /\ rangeResp.has_range
        /\ 0 <= rangeResp.start
        /\ rangeResp.start <= rangeResp.end
        /\ rangeResp.end < rangeResp.total
        /\ rangeResp.total = rangeReq.file.size
        /\ Len(rangeResp.body) = rangeResp.end - rangeResp.start + 1
        /\ rangeResp.body = [i \in 1..(rangeResp.end - rangeResp.start + 1) |->
                               rangeResp.start + i - 1]

\* Reached: a 206 for an encrypted file whose requested end lay beyond the
\* last byte and was clamped to it.
ClampedPartialServed ==
    /\ rangeResp.status = 206
    /\ rangeReq.file.keyed
    /\ rangeReq.header.parts[1].kind = "num"
    /\ rangeReq.header.parts[2].kind = "num"
    /\ rangeReq.header.parts[2].val > rangeResp.end
    /\ rangeResp.start > 0

\* C13: a suffix range bytes=-N (N >= 1) on a stored file of size S > 0 is
\* answered with the last min(N, S) bytes of the file (all of it when N > S).
SuffixRangeServesTail ==
    (/\ rangeResp # NoResponse
     /\ rangeReq.file.present /\ rangeReq.file.size > 0
     /\ rangeReq.header.present /\ rangeReq.header.prefix
     /\ Len(rangeReq.header.parts) = 2
     /\ rangeReq.header.parts[1].kind = "empty"
     /\ rangeReq.header.parts[2].kind = "num"
     /\ rangeReq.header.parts[2].val >= 1)
    => LET N == rangeReq.header.parts[2].val
           S == rangeReq.file.size
           k == IF N < S THEN N ELSE S
       IN  rangeResp.body = [i \in 1..k |-> S - k + i - 1]

\* C14: a request for a stored file whose Range header is invalid (no
\* "bytes=" prefix, not exactly two pieces around one '-', a piece that is
\* not a number, no number at all, start > end, or start at or beyond the
\* file size) is answered with status 200, the complete file and no
\* Content-Range.
InvalidRangeServesFullBody ==
    LET h == rangeReq.header
        S == rangeReq.file.size
        invalid ==
            \/ ~h.prefix
            \/ Len(h.parts) # 2
            \/ /\ Len(h.parts) = 2
               /\ \/ h.parts[1].kind = "junk"
                  \/ h.parts[2].kind = "junk"
                  \/ h.parts[1].kind = "empty" /\ h.parts[2].kind = "empty"
                  \/ h.parts[1].kind = "num" /\ h.parts[1].val >= S
                  \/ /\ h.parts[1].kind = "num" /\ h.parts[2].kind = "num"
                     /\ h.parts[1].val > h.parts[2].val
    IN  (rangeResp # NoResponse /\ rangeReq.file.present /\ h.present /\ invalid)
        => /\ rangeResp.status = 200
           /\ ~rangeResp.has_range
           /\ rangeResp.body = Bytes(S)

\* Reached: a start-end range with start > end, inside a non-empty file,
\* answered with the whole file.
ReversedRangeServedInFull ==
    /\ rangeResp.status = 200
    /\ rangeReq.file.present
    /\ rangeReq.header.present /\ rangeReq.header.prefix
    /\ Len(rangeReq.header.parts) = 2
    /\ rangeReq.header.parts[1].kind = "num" /\ rangeReq.header.parts[2].kind = "num"
    /\ rangeReq.header.parts[1].val > rangeReq.header.parts[2].val
    /\ rangeReq.header.parts[1].val < rangeReq.file.size
    /\ Len(rangeResp.body) = rangeReq.file.size

HandlersAnswerAlike ==
    gwResp # GwNoResponse =>
        /\ gwProto.status = gwResp.status
        /\ gwProto.body = gwResp.body
        /\ gwProto.block = gwResp.block
        /\ gwProto.text = gwResp.text
        /\ gwProto.has_range = gwResp.has_range
        /\ <<gwProto.start, gwProto.end, gwProto.total>> = <<gwResp.start, gwResp.end, gwResp.total>>

\* C17: a request whose root resolution ends with no record found, or with
\* the resolution deadline exceeded, is answered with 404.
ResolutionMissOrTimeoutIsNotFound ==
    (gwResp # GwNoResponse /\ gwResp.trace[Len(gwResp.trace)].via \in {"notfound", "timeout"})
    => gwResp.status = 404

\* C18: when the resolution of npub/treeName fails, for whatever reason, and
\* the file path has a first segment, one more resolution is made, of
\* treeName/firstSegment, before the request ends.
FallbackAfterAnyFailure ==
    (/\ gwResp # GwNoResponse
     /\ gwResp.trace[1].via \in {"notfound", "timeout", "error"}
     /\ gwReq.path # <<>>
     /\ Head(gwReq.path) # "")
    => /\ Len(gwResp.trace) = 2
       /\ gwResp.trace[2].key = "tree/first"

\* C19: a get of a block that is not in the local store, while Blossom
\* fails with an error other than 404, is a miss: it returns None and no
\* error.
BlossomFailureIsAMiss ==
    lastGet.remote = "err" => (lastGet.data = Missing /\ ~lastGet.err)

\* C20: a walk that ends without error returned the root and every block
\* reachable from it; when a reachable block is missing from the store the
\* walk fails, so no partial list is returned or pushed to Blossom.
WalkIsAllOrNothing ==
    (lastPush.state # "none" /\ lastPush.cid.valid) =>
        IF lastPush.complete
          THEN lastPush.state = "PushResult" /\ Elems(lastPush.blocks) = Reachable(lastPush.cid.hash)
          ELSE lastPush.state = "Error" /\ lastPush.pushed = 0

\* C21: whatever write_file and delete_file calls derive new roots from the
\* root R, R stays fetchable: its node and the blocks of its files are in
\* the store.
OriginalRootStaysReadable ==
    \A b \in BlocksOf(OrigRoot) : InStore(tStore, b)

\* C22: when the default port is taken at the time start_server runs, the
\* gateway serves on another loopback port, and the URL given to the
\* frontend names the port the gateway is bound to.
ServesDespitePortConflict ==
    (srv.entry = "start_server" /\ srv.conflict) =>
        /\ srv.port \in EphemeralPorts
        /\ urlGiven # 0 => urlGiven = srv.port

\* C23: the token of every child webview that is still open keeps validating
\* for its origin, whatever sessions were minted for other webviews since
\* (of the same origin or another): a request of an open webview is accepted.
OpenWebviewTokenStaysValid ==
    /\ \A l \in WebviewLabels :
         wvOpen[l] # NoWebview => validate_token(wvSessions, wvOpen[l].origin, wvOpen[l].token)
    /\ wvLast # NoValidate => wvLast.ok

\* C24: whatever record_visit calls were made, the history database holds at
\* most MAX_HISTORY_ENTRIES entries.
HistoryStaysBounded == HistLen(hDb) <= MaxHistoryEntries

\* C25: a visit that record_visit accepted for a path already in the store
\* leaves the path's single entry with a visitCount one higher, whatever
\* visit_count it was called with.
RepeatVisitAddsOne ==
    (hLast # NoVisit /\ hLast.ok /\ hLast.was # NoHist) =>
        /\ hLast.now.visit_count = hLast.was.visit_count + 1
        /\ hDb[hLast.path] = hLast.now

\* C26: every entry that search returns has a label, path or tree name in
\* which the lowercased query is consumed in order, character by character;
\* an entry none of whose fields consumes the query is not returned.
SearchReturnsOnlyMatches ==
    LET q == to_lowercase(sLast.query)
        RECURSIVE Consumed(_, _)
        Consumed(k, t) == IF k > Len(q) THEN TRUE
                          ELSE IF t = <<>> THEN FALSE
                          ELSE IF Head(t) = q[k] THEN Consumed(k + 1, Tail(t))
                          ELSE Consumed(k, Tail(t))
        Matches(entry) == \/ Consumed(1, to_lowercase(entry.label))
                          \/ Consumed(1, to_lowercase(entry.path))
                          \/ entry.tree_name # <<>> /\ Consumed(1, to_lowercase(entry.tree_name[1]))
    IN  \A r \in DOMAIN sLast.results : Matches(sLast.results[r].entry)

\* C27: every event emitted during cache replay carries the subscriber's
\* sub_id and matches at least one filter of the subscription, "#e" tag
\* constraints included.
ReplayedEventsMatchFilters ==
    \A n \in DOMAIN replay.emitted :
        /\ replay.emitted[n].sub_id = replay.sub_id
        /\ \E k \in DOMAIN replay.filters :
             FilterMatches(replay.filters[k], replay.emitted[n].event)

\* C28: what a client receives on /ws/data answers its own request: every
\* res and every binary frame it gets carries the id it asked under, a res
\* names the hash it asked for and a binary frame holds that hash's block,
\* also when other clients use the same request id.
RepliesReachTheirRequester ==
    \A c \in WsClients : \A m \in BagToSet(recv[c]) :
        /\ m.id = asked[c].id
        /\ m.hash = asked[c].hash

\* C29: once the 1500 ms of a forwarded request have passed, the client that
\* sent it (if still connected) has received a res for its id.
RequestAnsweredByTimeout ==
    \A c \in WsClients :
        (timer[c] = "done" /\ wsConn[c] = "open") =>
            \E m \in BagToSet(recv[c]) : m.kind = "res" /\ m.id = asked[c].id

\* C30: from the moment subscribe has issued the REQ to a relay, the listener
\* forwards what that relay delivers under the sub_id, also while subscribe
\* has not returned yet: as long as the subscriber has not unsubscribed, the
\* listener finds the sub_id of every subscription a relay holds.
NoLiveEventLostAtStart ==
    \A s \in SubIds : \A r \in relaySubs[s] :
        (subTask[s].pc = "insert" /\ r \in subTask[s].accepted
            /\ unsubTask[s] = "idle" /\ ~obs[s].closed)
        => ListenerFinds(subscriptions, s)

\* C31: while no subscribe, unsubscribe or retry step is in progress for a
\* sub_id, a relay holds its REQ only if the registry has its entry, and
\* after an answered Unsubscribe (no Subscribe asked since) no relay holds
\* its REQ.
NoBackendSubscriptionLeft ==
    \A s \in SubIds :
        (subTask[s].pc = "idle" /\ unsubTask[s] = "idle" /\ retryTask[s].pc = "idle") =>
            /\ relaySubs[s] # {} => subscriptions[s].present
            /\ obs[s].closed => relaySubs[s] = {}

\* C32: however the ensure_client calls interleave, at most one Nostr
\* client has been created, and at most one listener task and one retry
\* task run.
SingleLazyClient ==
    /\ clientsCreated <= 1
    /\ Cardinality(listeners) <= 1
    /\ Cardinality(retryLoops) <= 1

\* C33: with a permission store in force, a signEvent response holds a
\* signed event only if the store has SignEvent granted to the origin; for
\* an origin without that grant (no decision, a denial, all revoked) a
\* request whose token was accepted is answered 200 with the error
\* "Permission denied" and no result.
SignEventNeedsGrant ==
    (signResp # NoSignResp /\ signResp.perms) =>
        LET entry == signCache[signResp.origin]
            granted == entry.present /\ entry.perms["SignEvent"] = "granted"
        IN  /\ signResp.result = "signed" => granted
            /\ (~granted /\ signResp.status = 200) =>
                   (signResp.result = "none" /\ signResp.error = "Permission denied")

\* A signEvent request of an origin without a decision is refused while
\* another origin holds the grant.
SignRefusedWithoutGrant ==
    /\ signResp.status = 200 /\ signResp.error = "Permission denied"
    /\ ~signCache[signResp.origin].present
    /\ \E o \in Origins : signCache[o].present /\ signCache[o].perms["SignEvent"] = "granted"

\* C34: a root-cache entry that carries a key is never replaced by a
\* key-less CID for the same npub/treeName by a relay resolution, be the
\* resolution later than the frontend's cache_tree_root or concurrent with it.
KeyedRootSurvivesResolution ==
    [][\A t \in Trees :
          (rsCache[t].key # None /\ rsCache'[t].key = None) => rsWriter'[t] # "relay"]_vars

\* C35: for each /ws/data request the requesting client receives at most one
\* res message and at most one binary payload, however many peers hold the
\* block and in whatever order their res and binary messages arrive.
AtMostOneResAndOneBinary ==
    \A c \in WsClients : asked[c] # NoAsk =>
        \A kind \in {"res", "bin"} :
            \A m, n \in {x \in BagToSet(recv[c]) : x.kind = kind /\ x.id = asked[c].id} :
                m = n /\ CopiesIn(m, recv[c]) <= 1

\* C36: every entry added to the /ws/data pending map is removed in the end,
\* at the latest by the timeout or by its requester's disconnecting: an entry
\* that is left belongs to a request in flight, one whose requester is still
\* connected or whose timeout task has yet to run.
PendingEntriesAreInFlight ==
    \A k \in DOMAIN pending : pending[k] # NoPending =>
        \/ wsConn[pending[k].origin_id] = "open"
        \/ timer[pending[k].origin_id] = "armed"

\* C37: at most one receive loop, one classifier handler and one hello timer
\* run per WebRTCManager at any time, also when init is called concurrently
\* or shutdown is followed by a new init before the old tasks have seen the
\* cleared flag.
AtMostOneTaskOfEachKind ==
    \A kind \in TaskKinds : Cardinality({t \in tasks : t.kind = kind}) <= 1

\* C38: whenever the manager is initialised (signaling manager present,
\* running flag set, no init call under way) a periodic hello task is
\* active, also when the initial hello failed.
HelloTimerWhileInitialised ==
    (/\ signaling # 0
     /\ running
     /\ \A i \in InitCallers : initPc[i].pc = "idle")
    => \E t \in tasks : t.kind = "hello"

\* C39: the servers given to the latest set_servers are those of the client
\* as soon as keys are set and until the next set_servers, whether they were
\* set before the keys, after them, or are followed by another set_keys
\* (checked when no call is under way).
RequestedServersInEffect ==
    (/\ requested # 0
     /\ blossomKeys # 0
     /\ setKeys.pc = "idle"
     /\ setServers.pc = "idle")
    => blossomClient.servers = requested

\* C40: no lock guarding the Nostr subscription registry, the root cache or
\* the peer pool is held across an await point: a handler suspended at an
\* await holds none of them.
NoRegistryLockAcrossAwait ==
    \A h \in Handlers :
        Suspended(h) => Held(h, lockAt[h]) \cap {"subscriptions", "root_cache", "signaling"} = {}

====
